---- MODULE Spec2Model ----
(***************************************************************************)
(* A model of docker-slack-scheduled-status: the schedule expansion and    *)
(* resolution functions, the reconciliation cycle that keeps a Slack       *)
(* status and do-not-disturb flag in step with the schedule, and the       *)
(* self re-arming task scheduler that drives the cycle.                    *)
(*                                                                         *)
(* The specifications share the module's variables:                        *)
(*   Spec          the reconciliation cycle, one cycle at a time, with the *)
(*                 clock, the schedule file, the Slack service and a human *)
(*                 editing the Slack status as its environment;            *)
(*   ResolverSpec  getExpectedStatusFromSchedule applied to bounded sets   *)
(*                 of windows and instants;                                *)
(*   SchedSpec     createTaskScheduler under every interleaving of its     *)
(*                 start(), stop(), executeTask() calls, timer firings and *)
(*                 task completions; SchedFairSpec adds that a timeout     *)
(*                 which stays set fires;                                  *)
(*   TickSpec      getMillisecondsUntilNextTask on sampled instants;       *)
(*   ExpandSpec    the expansion of one schedule entry into windows and    *)
(*                 its resolution;                                         *)
(*   LoadSpec      the load of a parsed file of two entries;               *)
(*   ScopeSpec     two runtime scopes running cycles in one process;       *)
(*   CounterSpec   the assertive counter across reloads of the config;     *)
(*   LoopSpec      the timer loop on a clock of milliseconds;              *)
(*   StartupSpec   the start of the process with the configured interval.  *)
(*                                                                         *)
(* JavaScript values: strings are TLA+ strings, null and undefined are the *)
(* two marker strings NULL and UNDEFINED, a Date is its epoch value in     *)
(* milliseconds counted from local midnight of a Monday (the model's day   *)
(* 0), and an absent Date is NoDate.  Local days are 24 hours long (no     *)
(* daylight-saving change inside the modelled days).                       *)
(***************************************************************************)
EXTENDS Integers, Sequences, FiniteSets, TLC

NULL == "<null>"
UNDEFINED == "<undefined>"
NoDate == -1

MsPerSecond == 1000
MsPerMinute == 60 * MsPerSecond
MsPerHour == 60 * MsPerMinute
MsPerDay == 24 * MsPerHour

\* new Date(year, month, date, hours, minutes, seconds) in local time, with
\* the day counted from the model's day 0; out-of-range hours, minutes and
\* seconds roll over into the following units as Date does.
DateOf(day, hours, minutes, seconds) ==
    day * MsPerDay + hours * MsPerHour + minutes * MsPerMinute + seconds * MsPerSecond

\* getFullYear/getMonth/getDate of an instant, as one day number.
DayOf(t) == t \div MsPerDay

\* The host's Date.getTimezoneOffset() in minutes (UTC minus local time);
\* 0 is the container's default timezone, UTC.
TimezoneOffset == 0

\* The locale's short weekday names, lower-cased, by day of the week with
\* Monday first: the model's day 0 is a Monday, as 1 January 1996 is.
LocaleWeekdays == <<"mon", "tue", "wed", "thu", "fri", "sat", "sun">>

\* t.toLocaleString(locale, { weekday: 'short' }).toLowerCase()
WeekdayName(t) == LocaleWeekdays[(DayOf(t) % 7) + 1]

\* SCHEDULE_EVERYDAY: the names of 1..7 January 1996 after each date was
\* moved by minus the timezone offset: local midnight moved back by a
\* positive offset falls on the day before.
SCHEDULE_EVERYDAY ==
    [k \in 1..7 |->
        WeekdayName(DateOf(k - 1, 0, 0 - TimezoneOffset, 0) + 7 * MsPerDay)]

\* filter((_i, index) => index && index < 6), zero-based indexes 1..5
SCHEDULE_WEEKDAYS == SubSeq(SCHEDULE_EVERYDAY, 2, 6)

\* filter((_i, index) => index && index < 5), zero-based indexes 1..4
SCHEDULE_4D == SubSeq(SCHEDULE_EVERYDAY, 2, 5)

maximumDaySpan == 2

SeqContains(s, x) == \E i \in 1..Len(s) : s[i] = x

\* String.prototype.toLowerCase on the day names the model uses.
ToLowerCase(s) ==
    CASE s = "Mon" -> "mon" [] s = "Tue" -> "tue" [] s = "Wed" -> "wed"
      [] s = "Thu" -> "thu" [] s = "Fri" -> "fri" [] s = "Sat" -> "sat"
      [] s = "Sun" -> "sun" [] OTHER -> s

\* A schedule item's days value is [alias, list]: alias is the string given
\* ("" when the value is an array), list the array given.
determineValidWeekdaysForSchedule(weekdayValue) ==
    IF weekdayValue.alias = "everyday" THEN SCHEDULE_EVERYDAY
    ELSE IF weekdayValue.alias = "weekdays" THEN SCHEDULE_WEEKDAYS
    ELSE IF weekdayValue.alias = "4D" THEN SCHEDULE_4D
    ELSE IF weekdayValue.alias # "" THEN <<>>
    ELSE SelectSeq([i \in 1..Len(weekdayValue.list) |-> ToLowerCase(weekdayValue.list[i])],
                   LAMBDA value : SeqContains(SCHEDULE_EVERYDAY, value))

\* The occurrence of the current day only, with no look-back.
ItemWindows_CurrentDayOnly(id, itemRef, validWeekdays, currentDate) ==
    <<[id |-> id,
       startTime |-> DateOf(currentDate, itemRef.start[1], itemRef.start[2],
                            itemRef.start[3]),
       endTime |->
           IF itemRef.kind = "duration"
           THEN DateOf(currentDate, itemRef.start[1] + itemRef.final[1],
                       itemRef.start[2] + itemRef.final[2],
                       itemRef.start[3] + itemRef.final[3])
           ELSE DateOf(currentDate, itemRef.final[1], itemRef.final[2], itemRef.final[3]),
       icon |-> itemRef.icon, message |-> itemRef.message,
       doNotDisturb |-> itemRef.doNotDisturb,
       validWeekdays |-> validWeekdays,
       assertive |-> itemRef.assertive]>>

\* The windows one accepted schedule item contributes: one per dayOffset,
\* maximumDaySpan - 1 down to 0.  start and final are <<hours, minutes,
\* seconds>> after split(':') and parseInt; kind says whether final came
\* from the item's duration or from its end.
ItemWindows(id, itemRef, validWeekdays, currentDate) ==
    [k \in 1..maximumDaySpan |->
        LET dayOffset == maximumDaySpan - k
            startTime == DateOf(currentDate - dayOffset,
                                itemRef.start[1], itemRef.start[2], itemRef.start[3])
            endTime ==
                IF itemRef.kind = "duration"
                THEN DateOf(currentDate - dayOffset,
                            itemRef.start[1] + itemRef.final[1],
                            itemRef.start[2] + itemRef.final[2],
                            itemRef.start[3] + itemRef.final[3])
                ELSE DateOf(currentDate - dayOffset,
                            itemRef.final[1], itemRef.final[2], itemRef.final[3])
        IN  [id |-> id, startTime |-> startTime, endTime |-> endTime,
             icon |-> itemRef.icon, message |-> itemRef.message,
             doNotDisturb |-> itemRef.doNotDisturb,
             validWeekdays |-> validWeekdays,
             assertive |-> itemRef.assertive]]

\* The validation without the check of the icon.
ItemAccepted_NoIconCheck(itemRef) ==
    /\ Len(determineValidWeekdaysForSchedule(itemRef.days)) > 0
    /\ ~(itemRef.kind = "duration" /\ itemRef.final[1] > (maximumDaySpan - 1) * 24)

\* The validation at the head of the loop body: an item with no icon, with
\* no valid weekday, or with a duration whose hours exceed
\* (maximumDaySpan - 1) * 24 is skipped.
ItemAccepted(itemRef) ==
    /\ itemRef.icon # ""
    /\ Len(determineValidWeekdaysForSchedule(itemRef.days)) > 0
    /\ ~(itemRef.kind = "duration" /\ itemRef.final[1] > (maximumDaySpan - 1) * 24)

RECURSIVE ProcessItems(_, _)
ProcessItems(items, currentDate) ==
    IF items = <<>> THEN <<>>
    ELSE LET itemRef == Head(items)
         IN  (IF ItemAccepted(itemRef)
              THEN ItemWindows(itemRef.id, itemRef,
                               determineValidWeekdaysForSchedule(itemRef.days),
                               currentDate)
              ELSE <<>>)
             \o ProcessItems(Tail(items), currentDate)

\* The icon of every item of the file, skipped or not, and every ignored
\* icon.
RecognizedIcons_EveryItem(parsed) ==
    {parsed.entries[i].icon : i \in 1..Len(parsed.entries)}
    \cup {parsed.settings.ignoredIcons[i] : i \in 1..Len(parsed.settings.ignoredIcons)}

\* recognizedIcons: the icon of every accepted item and every ignored icon.
RecognizedIcons(parsed) ==
    {parsed.entries[i].icon : i \in {j \in 1..Len(parsed.entries) : ItemAccepted(parsed.entries[j])}}
    \cup {parsed.settings.ignoredIcons[i] : i \in 1..Len(parsed.settings.ignoredIcons)}

\* reloadScheduleWithValidation after the text was read and parsed:
\* [processedSchedule, recognizedIcons, settings] computed at currentTime.
ProcessSchedule(parsed, currentTime) ==
    [schedule |-> ProcessItems(parsed.entries, DayOf(currentTime)),
     knownIcons |-> RecognizedIcons(parsed),
     settings |-> parsed.settings]

(***************************************************************************)
(* The resolver                                                            *)
(***************************************************************************)

\* Math.random() is rnd / RandomSteps for an rnd in 0..RandomSteps-1.
RandomSteps == 4

\* Math.round(numerator / denominator) for a non-negative quotient.
MathRound(numerator, denominator) == (2 * numerator + denominator) \div (2 * denominator)

\* Math.floor(numerator / denominator), for either sign of the numerator.
MathFloor(numerator, denominator) == numerator \div denominator

\* The filter with the weekday of the day the window starts on in place of
\* the weekday of the current time.
ItemMatches_AnchorDay(item, currentTime) ==
    /\ item.startTime <= currentTime
    /\ item.endTime > currentTime
    /\ SeqContains(item.validWeekdays, WeekdayName(item.startTime))

\* The filter of getExpectedStatusFromSchedule.
ItemMatches(item, currentTime) ==
    /\ item.startTime <= currentTime
    /\ item.endTime > currentTime
    /\ SeqContains(item.validWeekdays, WeekdayName(currentTime))

ScheduleDuration(item) == item.endTime - item.startTime

\* Array.prototype.sort with the comparator durationA - durationB: a stable
\* sort, ascending by duration.  An item goes in after every item already
\* placed whose duration is not larger.
RECURSIVE InsertByDuration(_, _)
InsertByDuration(sorted, item) ==
    IF sorted = <<>> THEN <<item>>
    ELSE IF ScheduleDuration(Head(sorted)) <= ScheduleDuration(item)
         THEN <<Head(sorted)>> \o InsertByDuration(Tail(sorted), item)
         ELSE <<item>> \o sorted

\* The matching items left in schedule order.
SortByDuration_Unsorted(items) == items

RECURSIVE SortByDuration(_)
SortByDuration(items) ==
    IF items = <<>> THEN <<>>
    ELSE InsertByDuration(SortByDuration(SubSeq(items, 1, Len(items) - 1)),
                          items[Len(items)])

\* The value returned when nothing matches, { id: null }: the fields it
\* does not have read as undefined (message, icon), as no Date (startTime,
\* endTime) or as falsy (doNotDisturb, assertive).
NoMatch ==
    [id |-> NULL, startTime |-> NoDate, endTime |-> NoDate,
     icon |-> UNDEFINED, message |-> UNDEFINED, doNotDisturb |-> FALSE,
     validWeekdays |-> <<>>, assertive |-> FALSE]

\* The matching items in the order the function leaves them in: sorted
\* when there is more than one.
MatchingScheduleItems(schedule, currentTime) ==
    LET matching == SelectSeq(schedule, LAMBDA item : ItemMatches(item, currentTime))
    IN  IF Len(matching) > 1 THEN SortByDuration(matching) ELSE matching

\* The resolver with the winner drawn at random among the matching items.
getExpectedStatusFromSchedule_RandomWinner(schedule, currentTime, rnd) ==
    LET matchingScheduleItems == MatchingScheduleItems(schedule, currentTime)
    IN  IF Len(matchingScheduleItems) = 0 THEN NoMatch
        ELSE LET finalMatchRef == matchingScheduleItems[(rnd % Len(matchingScheduleItems)) + 1]
             IN  [finalMatchRef EXCEPT !.message = finalMatchRef.message[1]]

getExpectedStatusFromSchedule(schedule, currentTime, rnd) ==
    LET matchingScheduleItems == MatchingScheduleItems(schedule, currentTime)
    IN  IF Len(matchingScheduleItems) = 0 THEN NoMatch
        ELSE LET finalMatchRef == matchingScheduleItems[1]
                 randomMessageIndex ==
                     MathRound((Len(finalMatchRef.message) - 1) * rnd, RandomSteps)
             IN  [finalMatchRef EXCEPT !.message = finalMatchRef.message[randomMessageIndex + 1]]

(***************************************************************************)
(* The schedule files and the Slack service                                *)
(***************************************************************************)

\* The largest settings.assertiveInterval a schedule file of the model sets.
MaxAssertiveInterval == 2

HMS(hours, minutes, seconds) == <<hours, minutes, seconds>>

\* /schedule.toml holds one of three texts: "A" and "B" parse, "X" is
\* malformed TOML.  Both "A" and "B" declare an entry focus, with different
\* hours; "B" also declares an entry without an icon and an entry without
\* a valid weekday, which are skipped.  parseToml(text) is [settings, entries], the entries in
\* the order Object.entries gives them.
ScheduleTexts == {"A", "B", "X"}

Parsable(text) == text \in {"A", "B"}

parseToml(text) ==
    IF text = "A"
    THEN [settings |-> [ignoredIcons |-> <<":lunch:">>,
                        assertiveInterval |-> MaxAssertiveInterval],
          entries |-> <<
            [id |-> "work", start |-> HMS(6, 0, 0), kind |-> "end",
             final |-> HMS(18, 0, 0), icon |-> ":work:",
             message |-> <<"working", "busy">>,
             days |-> [alias |-> "everyday", list |-> <<>>],
             doNotDisturb |-> FALSE, assertive |-> TRUE],
            [id |-> "focus", start |-> HMS(12, 0, 0), kind |-> "duration",
             final |-> HMS(6, 0, 0), icon |-> ":focus:",
             message |-> <<"focus">>,
             days |-> [alias |-> "", list |-> <<"Mon", "Tue", "Funday">>],
             doNotDisturb |-> TRUE, assertive |-> FALSE] >>]
    ELSE [settings |-> [ignoredIcons |-> <<>>, assertiveInterval |-> 0],
          entries |-> <<
            [id |-> "focus", start |-> HMS(18, 0, 0), kind |-> "duration",
             final |-> HMS(12, 0, 0), icon |-> ":zzz:",
             message |-> <<"asleep">>,
             days |-> [alias |-> "everyday", list |-> <<>>],
             doNotDisturb |-> TRUE, assertive |-> TRUE],
            [id |-> "noicon", start |-> HMS(0, 0, 0), kind |-> "end",
             final |-> HMS(6, 0, 0), icon |-> "",
             message |-> <<"hidden">>,
             days |-> [alias |-> "everyday", list |-> <<>>],
             doNotDisturb |-> FALSE, assertive |-> FALSE],
            [id |-> "party", start |-> HMS(0, 0, 0), kind |-> "end",
             final |-> HMS(24, 0, 0), icon |-> ":custom:",
             message |-> <<"party">>,
             days |-> [alias |-> "", list |-> <<"Funday">>],
             doNotDisturb |-> FALSE, assertive |-> FALSE] >>]

\* What a person sets by hand in Slack: a custom status, a status whose
\* icon settings.ignoredIcons of text "A" lists, or no status at all (also
\* what Slack does when a status expires).
HumanStatuses ==
    { [icon |-> ":custom:", message |-> "away"],
      [icon |-> ":lunch:", message |-> "lunch"],
      [icon |-> "", message |-> ""] }

\* users.profile.set as the service applies it: a field the request body
\* does not carry (undefined is dropped by JSON.stringify) or carries empty
\* leaves the status without that part.
ProfileAfterSet(profile, body) ==
    [profile EXCEPT
        !.icon = IF body.status_emoji \in {UNDEFINED, ""} THEN "" ELSE body.status_emoji,
        !.message = IF body.status_text \in {UNDEFINED, ""} THEN "" ELSE body.status_text]

\* loadCurrentStatusFromSlack: users.profile.get and dnd.info.
CurrentSlackStatus(remote) ==
    [message |-> remote.message, icon |-> remote.icon, doNotDisturb |-> remote.doNotDisturb]

\* The body publishNewStatusToSlack sends to users.profile.set.
ProfileBody(scheduleItem) ==
    [status_emoji |-> scheduleItem.icon,
     status_text |-> scheduleItem.message,
     status_expiration |->
        IF scheduleItem.endTime # NoDate
        THEN MathRound(scheduleItem.endTime, MsPerSecond) ELSE 0]

\* Do-not-disturb switched on for a status that asks for it and never
\* switched off.
DndRequest_EnableOnly(scheduleItem, existingStatus) ==
    IF scheduleItem.doNotDisturb /\ ~existingStatus.doNotDisturb THEN "dnd.setSnooze"
    ELSE "none"

\* The do-not-disturb request publishNewStatusToSlack makes after the
\* profile was set: "dnd.setSnooze", "dnd.endSnooze" or "none".
DndRequest(scheduleItem, existingStatus) ==
    IF scheduleItem.doNotDisturb /\ ~existingStatus.doNotDisturb THEN "dnd.setSnooze"
    ELSE IF ~scheduleItem.doNotDisturb /\ existingStatus.doNotDisturb THEN "dnd.endSnooze"
    ELSE "none"

\* dndDurationInMinutes at the instant of the dnd.setSnooze request.
DndDurationInMinutes(scheduleItem, currentTime) ==
    MathFloor(scheduleItem.endTime - currentTime, MsPerMinute)

(***************************************************************************)
(* The reconciliation cycle                                                *)
(***************************************************************************)

VARIABLES
    now,                      \* the clock: new Date()
    fileText,                 \* the text of /schedule.toml
    slack,                    \* the Slack service: [icon, message, doNotDisturb]
    lastLoadedRawToml,
    lastLoadedParsedToml,     \* the text whose parse is cached
    lastSetStatusById,
    assertiveIntervalCounter,
    pc,                       \* where the cycle in flight waits, or "idle"
    cyc,                      \* the locals and the remote calls of the cycle
    retryDue,                 \* what the cycle before failed to reconcile
    lastPub,                  \* the last status a cycle published
    runLen                    \* assertive cycles since the last re-assertion

\* Bounds of the clock: it starts at the model's day 0 and ends MaxClock
\* steps of ClockStep after it.
MaxClock == 4
ClockStep == 6 * MsPerHour

\* The largest value the model lets assertiveIntervalCounter take.
MaxCounter == 3

\* JavaScript truthiness of a string | null | undefined.
Truthy(v) == v \notin {NULL, UNDEFINED, ""}

\* The assertive check: [forced, counter].
AssertiveCheck(settings, currentExpectedStatus, counter) ==
    IF settings.assertiveInterval # 0 /\ currentExpectedStatus.assertive
    THEN IF counter = settings.assertiveInterval
         THEN [forced |-> TRUE, counter |-> 0]
         ELSE [forced |-> FALSE, counter |-> counter + 1]
    ELSE [forced |-> FALSE, counter |-> counter]

\* The two exits taken before any remote call: "synced" (the expected
\* status is the one last set), "known_empty" (nothing expected, nothing
\* set), or "none".
ShortCircuit(statusShouldReassert, lastSetId, currentExpectedStatus) ==
    IF ~statusShouldReassert /\ Truthy(lastSetId) /\ currentExpectedStatus.id = lastSetId
    THEN "synced"
    ELSE IF lastSetId = "" /\ currentExpectedStatus.message = ""
    THEN "known_empty"
    ELSE "none"

isUsingUnrecognizedIcon(currentSlackStatus, knownIcons) ==
    Truthy(currentSlackStatus.icon) /\ currentSlackStatus.icon \notin knownIcons

\* The guards without the unrecognized-icon skip.
GuardDecision_NoOverrideSkip(statusShouldReassert, currentSlackStatus, knownIcons, currentExpectedStatus) ==
    IF statusShouldReassert /\ ~isUsingUnrecognizedIcon(currentSlackStatus, knownIcons)
    THEN "assertive_compliant"
    ELSE IF ~Truthy(currentExpectedStatus.id) /\ currentSlackStatus.message = ""
    THEN "already_empty"
    ELSE "publish"

\* The guards without the exit for a remote status that is already empty.
GuardDecision_NoEmptyGuard(statusShouldReassert, currentSlackStatus, knownIcons, currentExpectedStatus) ==
    IF statusShouldReassert /\ ~isUsingUnrecognizedIcon(currentSlackStatus, knownIcons)
    THEN "assertive_compliant"
    ELSE IF ~statusShouldReassert /\ isUsingUnrecognizedIcon(currentSlackStatus, knownIcons)
    THEN "override_skip"
    ELSE "publish"

\* The guards with the unrecognized-icon skip taken in forced cycles too.
GuardDecision_SkipWhenForced(statusShouldReassert, currentSlackStatus, knownIcons, currentExpectedStatus) ==
    IF isUsingUnrecognizedIcon(currentSlackStatus, knownIcons) THEN "override_skip"
    ELSE IF statusShouldReassert THEN "assertive_compliant"
    ELSE IF ~Truthy(currentExpectedStatus.id) /\ currentSlackStatus.message = ""
    THEN "already_empty"
    ELSE "publish"

\* What the cycle does with the fetched status: "assertive_compliant",
\* "override_skip" and "already_empty" return without publishing,
\* "publish" goes on to publishNewStatusToSlack.
GuardDecision(statusShouldReassert, currentSlackStatus, knownIcons, currentExpectedStatus) ==
    LET unrecognized == isUsingUnrecognizedIcon(currentSlackStatus, knownIcons)
    IN  IF statusShouldReassert /\ ~unrecognized THEN "assertive_compliant"
        ELSE IF ~statusShouldReassert /\ unrecognized THEN "override_skip"
        ELSE IF ~Truthy(currentExpectedStatus.id) /\ currentSlackStatus.message = ""
        THEN "already_empty"
        ELSE "publish"

\* The raw text cached as soon as it was read, before it is parsed.
LoadedRawAfterReload_BeforeParse(threw, rawToml, lastRaw) ==
    IF threw = "read_error" THEN lastRaw ELSE rawToml

\* lastLoadedRawToml after parseAndFilterSchedule: the text read is cached
\* after parseToml returned, so a read or a parse that throws leaves the
\* cache as it was.
LoadedRawAfterReload(threw, rawToml, lastRaw) ==
    IF threw = "none" THEN rawToml ELSE lastRaw

\* The cache kept when the schedule text changed.
LastSetAfterReload_Kept(scheduleDidChange, lastSetId) == lastSetId

\* lastSetStatusById after the schedule was reloaded: reset when its text
\* changed.
LastSetAfterReload(scheduleDidChange, lastSetId) ==
    IF scheduleDidChange THEN NULL ELSE lastSetId

\* The cache written before the publish is attempted.
LastSetAfterGuards_Eager(decision, lastSetId, currentExpectedStatus) ==
    IF decision \in {"override_skip", "already_empty", "publish"}
    THEN currentExpectedStatus.id
    ELSE lastSetId

\* lastSetStatusById after the guards ran.
LastSetAfterGuards(decision, lastSetId, currentExpectedStatus) ==
    IF decision \in {"override_skip", "already_empty"}
    THEN currentExpectedStatus.id
    ELSE lastSetId

\* lastSetStatusById after publishNewStatusToSlack returned.
LastSetAfterPublish(lastSetId, currentExpectedStatus) == currentExpectedStatus.id

NoCycle ==
    [outcome |-> "none", text |-> UNDEFINED, changed |-> FALSE,
     expected |-> NoMatch, forced |-> FALSE, knownIcons |-> {},
     fetched |-> [message |-> "", icon |-> "", doNotDisturb |-> FALSE],
     fetchedOk |-> FALSE, lsidStart |-> UNDEFINED, lsidResolved |-> UNDEFINED,
     lsidAtCall |-> UNDEFINED,
     converged |-> FALSE, retry |-> FALSE, assertive |-> FALSE, interval |-> 0, gap |-> 0,
     calls |-> <<>>]

NoPublish == [text |-> UNDEFINED, id |-> UNDEFINED]

cycleVars ==
    <<now, fileText, slack, lastLoadedRawToml, lastLoadedParsedToml,
      lastSetStatusById, assertiveIntervalCounter, pc, cyc, retryDue, lastPub, runLen>>

Call(name, raised, arg) == [name |-> name, raised |-> raised, arg |-> arg]

\* The cycle task up to its first remote call: the schedule is read (the
\* read may fail), parsed when its text changed (the parse of a malformed
\* text throws), processed and resolved at the current time, the assertive
\* check runs and the two short-circuits are tried.
CycleStart ==
    /\ pc = "idle"
    /\ \E readOk \in BOOLEAN, rnd \in 0..(RandomSteps - 1) :
        LET rawToml == fileText
            scheduleDidChange == rawToml # lastLoadedRawToml
            threw == IF ~readOk THEN "read_error"
                     ELSE IF scheduleDidChange /\ ~Parsable(rawToml) THEN "parse_error"
                     ELSE "none"
        IN  IF threw # "none"
            THEN /\ cyc' = [NoCycle EXCEPT !.outcome = threw,
                                !.text = IF readOk THEN rawToml ELSE UNDEFINED,
                                !.lsidStart = lastSetStatusById,
                                !.lsidResolved = lastSetStatusById,
                                !.lsidAtCall = lastSetStatusById]
                 /\ retryDue' = NoPublish
                 /\ runLen' = 0 - 1
                 /\ lastPub' = IF readOk THEN NoPublish ELSE lastPub
                 /\ lastLoadedRawToml' =
                        LoadedRawAfterReload(threw, rawToml, lastLoadedRawToml)
                 /\ UNCHANGED <<now, fileText, slack, lastLoadedParsedToml,
                                lastSetStatusById, assertiveIntervalCounter, pc>>
            ELSE LET parsedText == IF scheduleDidChange THEN rawToml ELSE lastLoadedParsedToml
                     loaded == ProcessSchedule(parseToml(parsedText), now)
                     lastSetId == LastSetAfterReload(scheduleDidChange, lastSetStatusById)
                     currentExpectedStatus ==
                         getExpectedStatusFromSchedule(loaded.schedule, now, rnd)
                     check == AssertiveCheck(loaded.settings, currentExpectedStatus,
                                             assertiveIntervalCounter)
                     exit == ShortCircuit(check.forced, lastSetId, currentExpectedStatus)
                     isAssertive == loaded.settings.assertiveInterval # 0
                                    /\ currentExpectedStatus.assertive
                     gap == IF isAssertive /\ runLen >= 0 THEN runLen + 1 ELSE 0 - 1
                     same == lastPub # NoPublish /\ lastPub.text = rawToml
                             /\ lastPub.id = currentExpectedStatus.id
                 IN  /\ check.counter <= MaxCounter
                     /\ lastLoadedRawToml' =
                            LoadedRawAfterReload(threw, rawToml, lastLoadedRawToml)
                     /\ lastLoadedParsedToml' = parsedText
                     /\ lastSetStatusById' = lastSetId
                     /\ assertiveIntervalCounter' = check.counter
                     /\ pc' = IF exit = "none" THEN "fetch" ELSE "idle"
                     /\ cyc' = [NoCycle EXCEPT !.outcome = exit, !.text = rawToml,
                                    !.changed = scheduleDidChange,
                                    !.expected = currentExpectedStatus,
                                    !.forced = check.forced,
                                    !.knownIcons = loaded.knownIcons,
                                    !.lsidStart = lastSetStatusById,
                                    !.lsidResolved = lastSetId,
                                    !.lsidAtCall = lastSetId,
                                    !.converged = same,
                                    !.retry = (retryDue # NoPublish
                                               /\ retryDue.text = rawToml
                                               /\ retryDue.id = currentExpectedStatus.id),
                                    !.assertive = isAssertive,
                                    !.interval = loaded.settings.assertiveInterval,
                                    !.gap = gap]
                     /\ retryDue' = NoPublish
                     /\ runLen' = IF check.forced THEN 0 ELSE gap
                     /\ lastPub' = IF same THEN lastPub ELSE NoPublish
                     /\ UNCHANGED <<now, fileText, slack>>

\* The guards run and the publish attempted whether or not the fetch
\* succeeded.
AfterFetch_IgnoringFailure(failure, decision) ==
    IF decision = "publish" THEN "profileSet" ELSE "idle"

\* Where the cycle goes after loadCurrentStatusFromSlack: a failed read
\* throws out of the cycle, otherwise the guards decide between the publish
\* and the end of the cycle.
AfterFetch(failure, decision) ==
    IF failure # "none" THEN "idle"
    ELSE IF decision = "publish" THEN "profileSet" ELSE "idle"

\* loadCurrentStatusFromSlack: both reads are requested together; when
\* either fails the cycle ends with the error.  When both succeed the
\* guards run on the fetched status.
Fetch ==
    /\ pc = "fetch"
    /\ \E failure \in {"none", "users.profile.get", "dnd.info"} :
        LET requests == <<Call("users.profile.get", failure = "users.profile.get", "-"),
                          Call("dnd.info", failure = "dnd.info", "-")>>
            currentSlackStatus == CurrentSlackStatus(slack)
            decision == GuardDecision(cyc.forced, currentSlackStatus, cyc.knownIcons,
                                      cyc.expected)
        IN  IF failure # "none"
            THEN /\ cyc' = [cyc EXCEPT !.outcome = "fetch_error", !.calls = requests,
                                       !.lsidAtCall = lastSetStatusById]
                 /\ pc' = AfterFetch(failure, decision)
                 /\ retryDue' = [text |-> cyc.text, id |-> cyc.expected.id]
                 /\ UNCHANGED lastSetStatusById
            ELSE /\ cyc' = [cyc EXCEPT
                                !.outcome = IF decision = "publish" THEN "none" ELSE decision,
                                !.calls = requests, !.fetched = currentSlackStatus,
                                !.fetchedOk = TRUE, !.lsidAtCall = lastSetStatusById]
                 /\ pc' = AfterFetch(failure, decision)
                 /\ lastSetStatusById' =
                        LastSetAfterGuards(decision, lastSetStatusById, cyc.expected)
                 /\ UNCHANGED retryDue
    /\ UNCHANGED <<now, fileText, slack, lastLoadedRawToml, lastLoadedParsedToml,
                   assertiveIntervalCounter, lastPub, runLen>>

\* publishNewStatusToSlack, the users.profile.set request.  When it
\* succeeds and no do-not-disturb request follows, the cycle caches the
\* status it set.
ProfileSet ==
    /\ pc = "profileSet"
    /\ \E raised \in BOOLEAN :
        LET body == ProfileBody(cyc.expected)
            request == Call("users.profile.set", raised, body)
            dnd == DndRequest(cyc.expected, cyc.fetched)
        IN  IF raised
            THEN /\ cyc' = [cyc EXCEPT !.outcome = "publish_error",
                                       !.calls = Append(cyc.calls, request),
                                       !.lsidAtCall = lastSetStatusById]
                 /\ pc' = "idle"
                 /\ retryDue' = [text |-> cyc.text, id |-> cyc.expected.id]
                 /\ UNCHANGED <<slack, lastSetStatusById, lastPub>>
            ELSE /\ slack' = ProfileAfterSet(slack, body)
                 /\ UNCHANGED retryDue
                 /\ IF dnd = "none"
                    THEN /\ pc' = "idle"
                         /\ cyc' = [cyc EXCEPT !.outcome = "published",
                                               !.calls = Append(cyc.calls, request),
                                               !.lsidAtCall = lastSetStatusById]
                         /\ lastSetStatusById' =
                                LastSetAfterPublish(lastSetStatusById, cyc.expected)
                         /\ lastPub' = [text |-> cyc.text, id |-> cyc.expected.id]
                    ELSE /\ pc' = dnd
                         /\ cyc' = [cyc EXCEPT !.calls = Append(cyc.calls, request),
                                               !.lsidAtCall = lastSetStatusById]
                         /\ UNCHANGED <<lastSetStatusById, lastPub>>
    /\ UNCHANGED <<now, fileText, lastLoadedRawToml, lastLoadedParsedToml,
                   assertiveIntervalCounter, runLen>>

\* publishNewStatusToSlack, the dnd.setSnooze or dnd.endSnooze request.  A
\* response with an error field, or no response, throws; a response
\* without an error field whose ok is false is logged only.
DndToggle ==
    /\ pc \in {"dnd.setSnooze", "dnd.endSnooze"}
    /\ \E response \in {"ok", "not_ok", "error"} :
        LET arg == IF pc = "dnd.setSnooze"
                   THEN DndDurationInMinutes(cyc.expected, now) ELSE 0
            request == Call(pc, response = "error", arg)
        IN  /\ pc' = "idle"
            /\ IF response = "error"
               THEN /\ cyc' = [cyc EXCEPT !.outcome = "publish_error",
                                          !.calls = Append(cyc.calls, request),
                                          !.lsidAtCall = lastSetStatusById]
                    /\ retryDue' = [text |-> cyc.text, id |-> cyc.expected.id]
                    /\ UNCHANGED <<slack, lastSetStatusById, lastPub>>
               ELSE /\ UNCHANGED retryDue
                    /\ cyc' = [cyc EXCEPT !.outcome = "published",
                                          !.calls = Append(cyc.calls, request),
                                          !.lsidAtCall = lastSetStatusById]
                    /\ slack' = IF response = "ok"
                                THEN [slack EXCEPT !.doNotDisturb = (pc = "dnd.setSnooze")]
                                ELSE slack
                    /\ lastSetStatusById' =
                           LastSetAfterPublish(lastSetStatusById, cyc.expected)
                    /\ lastPub' = [text |-> cyc.text, id |-> cyc.expected.id]
    /\ UNCHANGED <<now, fileText, lastLoadedRawToml, lastLoadedParsedToml,
                   assertiveIntervalCounter, runLen>>

\* The environment of the cycle: time passes, the schedule file is
\* rewritten, a person edits the Slack status or toggles do-not-disturb.
\* The steps of a cycle after its fetch read the status it fetched, not the
\* service, so the edits are taken between cycles; the clock is read again
\* for the do-not-disturb duration, so time also passes before that
\* request.  The record of the finished cycle is dropped when the
\* environment moves on.
Forget == IF pc = "idle" THEN NoCycle ELSE cyc

AdvanceClock ==
    /\ pc \in {"idle", "dnd.setSnooze"}
    /\ now + ClockStep <= MaxClock * ClockStep
    /\ now' = now + ClockStep
    /\ cyc' = Forget
    /\ UNCHANGED <<fileText, slack, lastLoadedRawToml, lastLoadedParsedToml,
                   lastSetStatusById, assertiveIntervalCounter, pc, retryDue, lastPub, runLen>>

EditSchedule ==
    /\ pc = "idle"
    /\ \E text \in ScheduleTexts \ {fileText} : fileText' = text
    /\ cyc' = Forget
    /\ UNCHANGED <<now, slack, lastLoadedRawToml, lastLoadedParsedToml,
                   lastSetStatusById, assertiveIntervalCounter, pc, retryDue, lastPub, runLen>>

HumanEdit ==
    /\ pc = "idle"
    /\ \E status \in HumanStatuses :
        /\ <<status.icon, status.message>> # <<slack.icon, slack.message>>
        /\ slack' = [slack EXCEPT !.icon = status.icon, !.message = status.message]
    /\ cyc' = Forget
    /\ UNCHANGED <<now, fileText, lastLoadedRawToml, lastLoadedParsedToml,
                   lastSetStatusById, assertiveIntervalCounter, pc, retryDue, lastPub, runLen>>

HumanDnd ==
    /\ pc = "idle"
    /\ slack' = [slack EXCEPT !.doNotDisturb = ~slack.doNotDisturb]
    /\ cyc' = Forget
    /\ UNCHANGED <<now, fileText, lastLoadedRawToml, lastLoadedParsedToml,
                   lastSetStatusById, assertiveIntervalCounter, pc, retryDue, lastPub, runLen>>

(***************************************************************************)
(* The resolver on bounded inputs                                          *)
(***************************************************************************)

VARIABLES
    rSchedule,                \* the schedule handed to the resolver
    rNow,                     \* the instant it is resolved at
    rResult                   \* what getExpectedStatusFromSchedule returned

resolverVars == <<rSchedule, rNow, rResult>>

\* The instants of the resolver's inputs are 0..MaxInstant steps of
\* ResolverStep: midnight and noon of the model's first days.
MaxInstant == 2
ResolverStep == 12 * MsPerHour

\* The items a schedule of the resolver's inputs is drawn from: each is
\* there or not, with any start and any end not before it among the
\* instants, and one of two weekday lists.
ResolverItems == <<
    [id |-> "a", icon |-> ":a:", message |-> <<"a1", "a2">>, doNotDisturb |-> FALSE,
     assertive |-> FALSE],
    [id |-> "b", icon |-> ":b:", message |-> <<"b1">>, doNotDisturb |-> TRUE,
     assertive |-> FALSE],
    [id |-> "c", icon |-> ":c:", message |-> <<"c1">>, doNotDisturb |-> FALSE,
     assertive |-> TRUE] >>

ResolverWeekdays == {<<"mon">>, <<"mon", "tue">>}

WindowsOf(item) ==
    {<<>>} \cup
    { <<[id |-> item.id, startTime |-> s * ResolverStep, endTime |-> e * ResolverStep,
         icon |-> item.icon, message |-> item.message,
         doNotDisturb |-> item.doNotDisturb, validWeekdays |-> w,
         assertive |-> item.assertive]>> :
      s \in 0..MaxInstant, e \in 0..MaxInstant, w \in ResolverWeekdays }

ResolverSchedules ==
    { wa \o wb \o wc :
        wa \in {w \in WindowsOf(ResolverItems[1]) : w = <<>> \/ w[1].startTime <= w[1].endTime},
        wb \in {w \in WindowsOf(ResolverItems[2]) : w = <<>> \/ w[1].startTime <= w[1].endTime},
        wc \in {w \in WindowsOf(ResolverItems[3]) : w = <<>> \/ w[1].startTime <= w[1].endTime} }

NotResolved == [NoMatch EXCEPT !.id = UNDEFINED]

Resolve ==
    /\ rResult = NotResolved
    /\ \E rnd \in 0..(RandomSteps - 1) :
        rResult' = getExpectedStatusFromSchedule(rSchedule, rNow, rnd)
    /\ UNCHANGED <<rSchedule, rNow>>

(***************************************************************************)
(* The task scheduler                                                      *)
(***************************************************************************)

VARIABLES
    crashOnException,         \* options.crashOnException
    pendingTimeouts,          \* the timeouts set and neither fired nor cleared
    currentTimeout,           \* the id of the timeout set last, 0 before any
    timeoutsSet,              \* how many timeouts were set so far
    loopTasks,                \* executions of the loop body awaiting options.task()
    directTasks,              \* options.task() runs made by the returned executeTask()
    startCalls,               \* how many times start() was called
    stopped,                  \* stop() was called and start() was not called since
    startedAfterStop,         \* the loop started a cycle while stopped
    thrown,                   \* how many times options.task() threw in the loop body
    rethrown                  \* how many times the loop body re-raised an exception

schedVars ==
    <<crashOnException, pendingTimeouts, currentTimeout, timeoutsSet, loopTasks,
      directTasks, startCalls, stopped, startedAfterStop, thrown, rethrown>>

\* Bounds of the scheduler's runs: timeouts set, start() calls, and
\* executeTask() calls in flight together.
MaxTimeouts == 3
MaxStartCalls == 2
MaxDirectTasks == 1

\* start(): the loop body runs up to its await of options.task().
SchedulerStart ==
    /\ startCalls < MaxStartCalls
    /\ startCalls' = startCalls + 1
    /\ loopTasks' = loopTasks + 1
    /\ stopped' = FALSE
    /\ UNCHANGED <<crashOnException, pendingTimeouts, currentTimeout, timeoutsSet,
                   directTasks, startedAfterStop, thrown, rethrown>>

\* stop(): clearTimeout(currentTimeout); clearing a timeout that fired, was
\* cleared or was never set does nothing.
SchedulerStop ==
    /\ startCalls > 0
    /\ pendingTimeouts' = pendingTimeouts \ {currentTimeout}
    /\ stopped' = TRUE
    /\ UNCHANGED <<crashOnException, currentTimeout, timeoutsSet, loopTasks,
                   directTasks, startCalls, startedAfterStop, thrown, rethrown>>

\* A timeout fires: the loop body runs again.
TimeoutFires ==
    /\ \E id \in pendingTimeouts : pendingTimeouts' = pendingTimeouts \ {id}
    /\ loopTasks' = loopTasks + 1
    /\ startedAfterStop' = (startedAfterStop \/ stopped)
    /\ UNCHANGED <<crashOnException, currentTimeout, timeoutsSet, directTasks,
                   startCalls, stopped, thrown, rethrown>>

\* The catch block with every exception re-raised.
Rethrows_Always(threw, crash) == threw

\* The catch block with every exception swallowed.
Rethrows_Never(threw, crash) == FALSE

\* The catch block of the loop body: the exception is logged and, when
\* crashOnException is set, thrown again.
Rethrows(threw, crash) == threw /\ crash

\* options.task() settles in the loop body: unless it threw and the
\* exception is thrown again, the next timeout is set.
LoopTaskSettles ==
    /\ loopTasks > 0
    /\ \E threw \in BOOLEAN :
        /\ thrown' = IF threw THEN thrown + 1 ELSE thrown
        /\ IF Rethrows(threw, crashOnException)
           THEN /\ loopTasks' = loopTasks - 1
                /\ rethrown' = rethrown + 1
                /\ UNCHANGED <<pendingTimeouts, currentTimeout, timeoutsSet>>
           ELSE /\ timeoutsSet < MaxTimeouts
                /\ loopTasks' = loopTasks - 1
                /\ timeoutsSet' = timeoutsSet + 1
                /\ currentTimeout' = timeoutsSet + 1
                /\ pendingTimeouts' = pendingTimeouts \cup {timeoutsSet + 1}
                /\ UNCHANGED rethrown
    /\ UNCHANGED <<crashOnException, directTasks, startCalls, stopped, startedAfterStop>>

\* The returned executeTask(): options.task() is called directly.
ExecuteTaskCalled ==
    /\ directTasks < MaxDirectTasks
    /\ directTasks' = directTasks + 1
    /\ UNCHANGED <<crashOnException, pendingTimeouts, currentTimeout, timeoutsSet,
                   loopTasks, startCalls, stopped, startedAfterStop, thrown, rethrown>>

DirectTaskSettles ==
    /\ directTasks > 0
    /\ directTasks' = directTasks - 1
    /\ UNCHANGED <<crashOnException, pendingTimeouts, currentTimeout, timeoutsSet,
                   loopTasks, startCalls, stopped, startedAfterStop, thrown, rethrown>>

(***************************************************************************)
(* The delay until the next task                                           *)
(***************************************************************************)

VARIABLES
    tInterval,                \* intervalInSeconds
    tNow,                     \* the instant of the call: new Date()
    tDelay                    \* what getMillisecondsUntilNextTask returned

tickVars == <<tInterval, tNow, tDelay>>

\* The intervals that evenly divide a minute.
TickIntervals == {i \in 1..60 : 60 % i = 0}

\* The instants of the calls: every second of the first minute of a day, of
\* the last minute of its first hour and of its last minute, at the
\* milliseconds 0, 1, 500 and 999.
TickMinutes == {0, 59, 1439}
TickMillis == {0, 1, 500, 999}
TickInstants ==
    {DateOf(0, 0, m, sec) + ms : m \in TickMinutes, sec \in 0..59, ms \in TickMillis}

\* Math.ceil(numerator / denominator) for a non-negative numerator.
MathCeil(numerator, denominator) == (numerator + denominator - 1) \div denominator

\* The delay with the seconds rounded down to an interval and one interval
\* added.
getMillisecondsUntilNextTask_Floor(intervalInSeconds, currentTime) ==
    (currentTime - (currentTime % MsPerMinute))
        + ((currentTime % MsPerMinute) \div (intervalInSeconds * MsPerSecond) + 1)
            * intervalInSeconds * MsPerSecond
        - currentTime

\* nextClosestInterval is the start of the current minute with its seconds
\* set to Math.ceil(currentSeconds / intervalInSeconds) * intervalInSeconds
\* (60 seconds roll over into the next minute).  currentSeconds is seconds
\* + milliseconds / 1000, a whole number of milliseconds: the quotient is
\* taken here on milliseconds.
getMillisecondsUntilNextTask(intervalInSeconds, currentTime) ==
    LET minuteStart == currentTime - (currentTime % MsPerMinute)
        currentMilliseconds == currentTime % MsPerMinute
        nextSeconds == MathCeil(currentMilliseconds, intervalInSeconds * MsPerSecond)
                           * intervalInSeconds
        nextClosestInterval == minuteStart + nextSeconds * MsPerSecond
    IN  nextClosestInterval - currentTime

ComputeDelay ==
    /\ tDelay = NoDate
    /\ tDelay' = getMillisecondsUntilNextTask(tInterval, tNow)
    /\ UNCHANGED <<tInterval, tNow>>

(***************************************************************************)
(* The expansion of one schedule entry                                     *)
(***************************************************************************)

VARIABLES
    xEntry,                   \* the schedule entry of the parsed file
    xNow,                     \* the instant of the cycle
    xWindows,                 \* processedSchedule
    xResult,                  \* what the resolver returned for it
    xStage                    \* "entry", "expanded" or "resolved"

expandVars == <<xEntry, xNow, xWindows, xResult, xStage>>

\* The entries: a start, a duration or an end, and a days value.
ExpandStarts == {HMS(0, 0, 0), HMS(9, 0, 0), HMS(22, 0, 0), HMS(23, 45, 0)}

ExpandFinals ==
    {HMS(0, 0, 0), HMS(6, 0, 0), HMS(12, 30, 0), HMS(24, 0, 0), HMS(24, 30, 0),
     HMS(25, 0, 0), HMS(36, 0, 0)}

ExpandDays ==
    {[alias |-> "everyday", list |-> <<>>], [alias |-> "weekdays", list |-> <<>>],
     [alias |-> "", list |-> <<"Mon">>], [alias |-> "", list |-> <<"Tue">>],
     [alias |-> "", list |-> <<"Funday">>], [alias |-> "workdays", list |-> <<>>]}

ExpandEntries ==
    {[id |-> "x", start |-> start, kind |-> kind, final |-> final, icon |-> ":x:",
      message |-> <<"x">>, days |-> days, doNotDisturb |-> FALSE, assertive |-> FALSE] :
        start \in ExpandStarts, kind \in {"duration", "end"}, final \in ExpandFinals,
        days \in ExpandDays}

NoEntry ==
    [id |-> "", start |-> HMS(0, 0, 0), kind |-> "end", final |-> HMS(0, 0, 0),
     icon |-> "", message |-> <<>>, days |-> [alias |-> "", list |-> <<>>],
     doNotDisturb |-> FALSE, assertive |-> FALSE]

\* The instants: four hours of each of the days 0..MaxExpandDay.
MaxExpandDay == 2
ExpandHours == {0, 2, 10, 23}
ExpandInstants == {DateOf(d, h, 0, 0) : d \in 0..MaxExpandDay, h \in ExpandHours}

\* The occurrences of a duration-based entry anchored on the current day
\* and on each of the MaxLookback days before it: the entry's start on the
\* anchor day, for its duration.
MaxLookback == 4
OccurrencesOfDuration(itemRef, currentDate) ==
    [k \in 1..(MaxLookback + 1) |->
        LET anchor == currentDate - (MaxLookback + 1 - k)
        IN  [id |-> itemRef.id,
             startTime |-> DateOf(anchor, itemRef.start[1], itemRef.start[2],
                                  itemRef.start[3]),
             endTime |-> DateOf(anchor, itemRef.start[1] + itemRef.final[1],
                                itemRef.start[2] + itemRef.final[2],
                                itemRef.start[3] + itemRef.final[3]),
             icon |-> itemRef.icon, message |-> itemRef.message,
             doNotDisturb |-> itemRef.doNotDisturb,
             validWeekdays |-> determineValidWeekdaysForSchedule(itemRef.days),
             assertive |-> itemRef.assertive]]

Expand ==
    /\ xStage = "entry"
    /\ xWindows' = ProcessItems(<<xEntry>>, DayOf(xNow))
    /\ xStage' = "expanded"
    /\ UNCHANGED <<xEntry, xNow, xResult>>

ResolveExpanded ==
    /\ xStage = "expanded"
    /\ \E rnd \in 0..(RandomSteps - 1) :
        xResult' = getExpectedStatusFromSchedule(xWindows, xNow, rnd)
    /\ xStage' = "resolved"
    /\ UNCHANGED <<xEntry, xNow, xWindows>>

(***************************************************************************)
(* The load of a schedule of two entries                                   *)
(***************************************************************************)

VARIABLES
    lParsed,                  \* the parsed file: [settings, entries]
    lNow,                     \* the instant of the cycle
    lLoaded                   \* what reloadScheduleWithValidation returned, or NotLoaded

loadVars == <<lParsed, lNow, lLoaded>>

\* The days the load is made on: 0..MaxLoadDay, at noon.
MaxLoadDay == 1

\* The days values of the entries: aliases, lists with and without a
\* recognized name, an empty list, and a string that is no alias.
LoadDays ==
    {[alias |-> "everyday", list |-> <<>>], [alias |-> "4D", list |-> <<>>],
     [alias |-> "", list |-> <<"Mon", "Funday">>],
     [alias |-> "", list |-> <<"Funday", "Moonday">>],
     [alias |-> "", list |-> <<>>], [alias |-> "workdays", list |-> <<>>]}

\* The entries with the given id: from 09:00 to 17:00, with or without an
\* icon, with any of the days values.
LoadEntries(id) ==
    {[id |-> id, start |-> HMS(9, 0, 0), kind |-> "end", final |-> HMS(17, 0, 0),
      icon |-> icon, message |-> <<id>>, days |-> days,
      doNotDisturb |-> FALSE, assertive |-> FALSE] :
        icon \in {"", ":" \o id \o ":"}, days \in LoadDays}

\* Nothing loaded yet: no result of a load has these settings.
NotLoaded ==
    [schedule |-> <<>>, knownIcons |-> {},
     settings |-> [ignoredIcons |-> <<>>, assertiveInterval |-> 0 - 1]]

Load ==
    /\ lLoaded = NotLoaded
    /\ lLoaded' = ProcessSchedule(lParsed, lNow)
    /\ UNCHANGED <<lParsed, lNow>>

(***************************************************************************)
(* Two runtime scopes in one process                                       *)
(***************************************************************************)

VARIABLES
    pFileText,                \* the text of /schedule.toml
    pNow,                     \* the clock
    pLoadedRawToml,           \* lastLoadedRawToml, one per module
    pScopes,                  \* per scope: lastSetStatusById, counter, remote
    pAlone,                   \* per scope: the same scope run with no other
    pLast                     \* the cycle just run, and the same cycle run alone

scopeVars == <<pFileText, pNow, pLoadedRawToml, pScopes, pAlone, pLast>>

\* The scopes createRuntimeScope was called for.
Scopes == {"s1", "s2"}

\* The clock of the two scopes: it starts at noon of the model's day 0 and
\* ends MaxScopeClock steps of ClockStep after it.
MaxScopeClock == 1
ScopeClockStart == 2 * ClockStep

\* The texts the file takes while the two scopes run.
ScopeTexts == {"A", "B"}

\* A scope after createRuntimeScope: its own state, and its own account on
\* the service.
NewScope ==
    [lastSetStatusById |-> UNDEFINED, assertiveIntervalCounter |-> 0,
     slack |-> [icon |-> "", message |-> "", doNotDisturb |-> FALSE]]

NoScopeCycle ==
    [scope |-> "none", scheduleDidChange |-> FALSE, calls |-> <<>>,
     aloneDidChange |-> FALSE, aloneCalls |-> <<>>]

\* One whole cycle task of a scope whose requests all succeed, run on the
\* cached text lastRaw: [raw, scheduleDidChange, calls, scope], the text
\* cached, whether the schedule was taken as changed, the remote calls made
\* and the scope afterwards.
ScopeTask(lastRaw, scope, rawToml, currentTime, rnd) ==
    LET scheduleDidChange == rawToml # lastRaw
        loaded == ProcessSchedule(parseToml(rawToml), currentTime)
        lastSetId == LastSetAfterReload(scheduleDidChange, scope.lastSetStatusById)
        currentExpectedStatus ==
            getExpectedStatusFromSchedule(loaded.schedule, currentTime, rnd)
        check == AssertiveCheck(loaded.settings, currentExpectedStatus,
                                scope.assertiveIntervalCounter)
        exit == ShortCircuit(check.forced, lastSetId, currentExpectedStatus)
        currentSlackStatus == CurrentSlackStatus(scope.slack)
        decision == GuardDecision(check.forced, currentSlackStatus, loaded.knownIcons,
                                  currentExpectedStatus)
        dnd == DndRequest(currentExpectedStatus, currentSlackStatus)
        fetch == <<Call("users.profile.get", FALSE, "-"), Call("dnd.info", FALSE, "-")>>
        body == ProfileBody(currentExpectedStatus)
        publish ==
            <<Call("users.profile.set", FALSE, body)>>
            \o (IF dnd = "dnd.setSnooze"
                THEN <<Call(dnd, FALSE, DndDurationInMinutes(currentExpectedStatus,
                                                             currentTime))>>
                ELSE IF dnd = "dnd.endSnooze" THEN <<Call(dnd, FALSE, 0)>>
                ELSE <<>>)
        published ==
            [ProfileAfterSet(scope.slack, body) EXCEPT
                !.doNotDisturb = IF dnd = "dnd.setSnooze" THEN TRUE
                                 ELSE IF dnd = "dnd.endSnooze" THEN FALSE
                                 ELSE scope.slack.doNotDisturb]
    IN  [raw |-> LoadedRawAfterReload("none", rawToml, lastRaw),
         scheduleDidChange |-> scheduleDidChange,
         calls |-> IF exit # "none" THEN <<>>
                   ELSE IF decision = "publish" THEN fetch \o publish ELSE fetch,
         scope |->
            [lastSetStatusById |->
                IF exit # "none" THEN lastSetId
                ELSE IF decision = "publish"
                THEN LastSetAfterPublish(lastSetId, currentExpectedStatus)
                ELSE LastSetAfterGuards(decision, lastSetId, currentExpectedStatus),
             assertiveIntervalCounter |-> check.counter,
             slack |-> IF exit = "none" /\ decision = "publish"
                       THEN published ELSE scope.slack]]

\* A cycle of one scope.  The scope reads and writes the module's
\* lastLoadedRawToml; pAlone follows the same scope with a cache no other
\* scope writes.
ScopeCycle ==
    \E s \in Scopes, rnd \in 0..(RandomSteps - 1) :
        LET ran == ScopeTask(pLoadedRawToml, pScopes[s], pFileText, pNow, rnd)
            alone == ScopeTask(pAlone[s].raw, pAlone[s].scope, pFileText, pNow, rnd)
        IN  /\ pLoadedRawToml' = ran.raw
            /\ pScopes' = [pScopes EXCEPT ![s] = ran.scope]
            /\ pAlone' = [pAlone EXCEPT ![s] = [raw |-> alone.raw, scope |-> alone.scope]]
            /\ pLast' = [scope |-> s, scheduleDidChange |-> ran.scheduleDidChange,
                         calls |-> ran.calls,
                         aloneDidChange |-> alone.scheduleDidChange,
                         aloneCalls |-> alone.calls]
            /\ UNCHANGED <<pFileText, pNow>>

ScopeEditSchedule ==
    /\ \E text \in ScopeTexts \ {pFileText} : pFileText' = text
    /\ pLast' = NoScopeCycle
    /\ UNCHANGED <<pNow, pLoadedRawToml, pScopes, pAlone>>

ScopeAdvanceClock ==
    /\ pNow + ClockStep <= ScopeClockStart + MaxScopeClock * ClockStep
    /\ pNow' = pNow + ClockStep
    /\ pLast' = NoScopeCycle
    /\ UNCHANGED <<pFileText, pLoadedRawToml, pScopes, pAlone>>

(***************************************************************************)
(* The assertive counter across reloads                                    *)
(***************************************************************************)

VARIABLES
    qInterval,                \* settings.assertiveInterval of the loaded config
    qCounter,                 \* assertiveIntervalCounter
    qForced,                  \* statusShouldReassert of the cycle just run
    qWait                     \* assertive cycles run since the last forced one

counterVars == <<qInterval, qCounter, qForced, qWait>>

\* The intervals the configs set: 0 (off) to MaxReloadInterval; and the
\* largest count of cycles the model follows.
MaxReloadInterval == 3
MaxAssertiveCycles == 8

\* The cycle task up to the assertive check: the config is reloaded, with
\* the interval it sets now, a status is resolved that is assertive or not,
\* and the check runs on the counter the cycle before left.
AssertiveCycle ==
    \E interval \in 0..MaxReloadInterval, assertive \in BOOLEAN :
        LET check == AssertiveCheck([assertiveInterval |-> interval],
                                    [assertive |-> assertive], qCounter)
            wait == IF check.forced \/ ~assertive \/ interval = 0 THEN 0 ELSE qWait + 1
        IN  /\ check.counter <= MaxAssertiveCycles
            /\ wait <= MaxAssertiveCycles
            /\ qInterval' = interval
            /\ qCounter' = check.counter
            /\ qForced' = check.forced
            /\ qWait' = wait

(***************************************************************************)
(* The timer loop on the clock                                             *)
(***************************************************************************)

VARIABLES
    kInterval,                \* options.intervalInSeconds
    kNow,                     \* the clock, in milliseconds
    kRunning,                 \* whether options.task() is awaited
    kDue,                     \* the instant the timeout set is due, or NoDate
    kStart,                   \* the start of the cycle running or just run
    kPrevStart,               \* the start of the cycle before it, or NoDate
    kByTimer                  \* whether that cycle was started by the timeout

loopVars == <<kInterval, kNow, kRunning, kDue, kStart, kPrevStart, kByTimer>>

\* The intervals of the loop, the instants start() is called at, the times
\* a task takes (0: it settles within the millisecond it started in), and
\* the last second the model follows the clock to.
LoopIntervals == {1, 20, 30}
LoopStartInstants == {0, 1, 999, 1000, 19500}
TaskDurations(intervalInSeconds) ==
    {0, 1, 500, intervalInSeconds * MsPerSecond, intervalInSeconds * MsPerSecond + 1,
     2 * intervalInSeconds * MsPerSecond + 500}
MaxLoopSeconds == 90

\* start(): executeTask is called at once, whatever the clock reads.
LoopStart ==
    /\ ~kRunning /\ kDue = NoDate /\ kStart = NoDate
    /\ kRunning' = TRUE
    /\ kStart' = kNow
    /\ kByTimer' = FALSE
    /\ UNCHANGED <<kInterval, kNow, kDue, kPrevStart>>

\* executeTask after the task settled, taskTime milliseconds after it
\* started: the delay is computed from the clock read then, and the
\* timeout set.
LoopTaskEnds ==
    /\ kRunning
    /\ \E taskTime \in TaskDurations(kInterval) :
        /\ kStart + taskTime <= MaxLoopSeconds * MsPerSecond
        /\ kNow' = kStart + taskTime
        /\ kDue' = kNow' + getMillisecondsUntilNextTask(kInterval, kNow')
    /\ kRunning' = FALSE
    /\ UNCHANGED <<kInterval, kStart, kPrevStart, kByTimer>>

\* The timeout fires when it is due and executeTask starts the next cycle.
LoopTimeoutFires ==
    /\ ~kRunning /\ kDue # NoDate
    /\ kNow' = kDue
    /\ kDue' = NoDate
    /\ kRunning' = TRUE
    /\ kPrevStart' = kStart
    /\ kStart' = kDue
    /\ kByTimer' = TRUE
    /\ UNCHANGED kInterval

(***************************************************************************)
(* The start of the process                                                *)
(***************************************************************************)

VARIABLES
    envInterval,              \* SCHEDULER_INTERVAL_SECONDS: <<>> when unset, <<n>> when set to n
    taskSchedulerInterval,    \* the module constant, 0 before the module is evaluated
    schedulerCreated,         \* createTaskScheduler returned and the loop was started
    startupCycles             \* cycles of the loop run so far

startupVars == <<envInterval, taskSchedulerInterval, schedulerCreated, startupCycles>>

\* The values the environment variable is set to, and the cycles a run of
\* the started loop is followed for.
MaxEnvInterval == 60
MaxStartupCycles == 2

\* The interval used when the environment variable is not set.
DefaultInterval == 20

\* parseInt(Deno.env.get('SCHEDULER_INTERVAL_SECONDS') || '20')
ReadInterval ==
    /\ taskSchedulerInterval = 0
    /\ taskSchedulerInterval' =
           IF envInterval = <<>> THEN DefaultInterval ELSE envInterval[1]
    /\ UNCHANGED <<envInterval, schedulerCreated, startupCycles>>

\* An interval refused unless it evenly divides 60.
IntervalAccepted_Divisor(intervalInSeconds) == 60 % intervalInSeconds = 0

\* createTaskScheduler takes whatever number it is given: the values
\* 1, 2, 3, 4, 5, 6, 10, 15, 20, 30 are a doc comment and a compile-time
\* type, and the parsed environment value is not compared with them.
IntervalAccepted(intervalInSeconds) == TRUE

\* createTaskScheduler(taskSchedulerInterval, task) and the start of its
\* loop.
CreateScheduler ==
    /\ taskSchedulerInterval # 0
    /\ ~schedulerCreated
    /\ IntervalAccepted(taskSchedulerInterval)
    /\ schedulerCreated' = TRUE
    /\ UNCHANGED <<envInterval, taskSchedulerInterval, startupCycles>>

\* A cycle of the started loop.
StartupCycle ==
    /\ schedulerCreated
    /\ startupCycles < MaxStartupCycles
    /\ startupCycles' = startupCycles + 1
    /\ UNCHANGED <<envInterval, taskSchedulerInterval, schedulerCreated>>

(***************************************************************************)
(* The specifications                                                      *)
(***************************************************************************)

vars == <<cycleVars, resolverVars, schedVars, tickVars, expandVars, loadVars, scopeVars, counterVars, loopVars, startupVars>>

\* The cycle task after construction, with any of the schedule texts in
\* the file; the variables of the other specifications stay as they are.
Init ==
    /\ now = 0
    /\ fileText \in ScheduleTexts
    /\ slack = [icon |-> "", message |-> "", doNotDisturb |-> FALSE]
    /\ lastLoadedRawToml = UNDEFINED
    /\ lastLoadedParsedToml = UNDEFINED
    /\ lastSetStatusById = UNDEFINED
    /\ assertiveIntervalCounter = 0
    /\ pc = "idle"
    /\ cyc = NoCycle
    /\ retryDue = NoPublish
    /\ lastPub = NoPublish
    /\ runLen = 0
    /\ rSchedule = <<>> /\ rNow = 0 /\ rResult = NotResolved
    /\ crashOnException = FALSE /\ pendingTimeouts = {} /\ currentTimeout = 0
    /\ timeoutsSet = 0 /\ loopTasks = 0 /\ directTasks = 0 /\ startCalls = 0
    /\ stopped = FALSE /\ startedAfterStop = FALSE /\ thrown = 0 /\ rethrown = 0
    /\ tInterval = 1 /\ tNow = 0 /\ tDelay = NoDate
    /\ xEntry = NoEntry /\ xNow = 0 /\ xWindows = <<>> /\ xResult = NotResolved
    /\ xStage = "entry"
    /\ lParsed = [settings |-> UNDEFINED, entries |-> <<>>] /\ lNow = 0
    /\ lLoaded = NotLoaded
    /\ pFileText = "A" /\ pNow = 0 /\ pLoadedRawToml = UNDEFINED
    /\ pScopes = [s \in Scopes |-> NewScope]
    /\ pAlone = [s \in Scopes |-> [raw |-> UNDEFINED, scope |-> NewScope]]
    /\ pLast = NoScopeCycle
    /\ qInterval = 0 /\ qCounter = 0 /\ qForced = FALSE /\ qWait = 0
    /\ kInterval = 1 /\ kNow = 0 /\ kRunning = FALSE /\ kDue = NoDate
    /\ kStart = NoDate /\ kPrevStart = NoDate /\ kByTimer = FALSE
    /\ envInterval = <<>> /\ taskSchedulerInterval = 0
    /\ schedulerCreated = FALSE /\ startupCycles = 0

Next ==
    \/ CycleStart /\ UNCHANGED <<resolverVars, schedVars, tickVars, expandVars, loadVars, scopeVars, counterVars, loopVars, startupVars>>
    \/ Fetch /\ UNCHANGED <<resolverVars, schedVars, tickVars, expandVars, loadVars, scopeVars, counterVars, loopVars, startupVars>>
    \/ ProfileSet /\ UNCHANGED <<resolverVars, schedVars, tickVars, expandVars, loadVars, scopeVars, counterVars, loopVars, startupVars>>
    \/ DndToggle /\ UNCHANGED <<resolverVars, schedVars, tickVars, expandVars, loadVars, scopeVars, counterVars, loopVars, startupVars>>
    \/ AdvanceClock /\ UNCHANGED <<resolverVars, schedVars, tickVars, expandVars, loadVars, scopeVars, counterVars, loopVars, startupVars>>
    \/ EditSchedule /\ UNCHANGED <<resolverVars, schedVars, tickVars, expandVars, loadVars, scopeVars, counterVars, loopVars, startupVars>>
    \/ HumanEdit /\ UNCHANGED <<resolverVars, schedVars, tickVars, expandVars, loadVars, scopeVars, counterVars, loopVars, startupVars>>
    \/ HumanDnd /\ UNCHANGED <<resolverVars, schedVars, tickVars, expandVars, loadVars, scopeVars, counterVars, loopVars, startupVars>>

Spec == Init /\ [][Next]_vars

\* The resolver's inputs drawn from the bounded sets.
ResolverInit ==
    /\ rSchedule \in ResolverSchedules
    /\ rNow \in {k * ResolverStep : k \in 0..MaxInstant}
    /\ rResult = NotResolved
    /\ now = 0 /\ fileText = "A"
    /\ slack = [icon |-> "", message |-> "", doNotDisturb |-> FALSE]
    /\ lastLoadedRawToml = UNDEFINED /\ lastLoadedParsedToml = UNDEFINED
    /\ lastSetStatusById = UNDEFINED /\ assertiveIntervalCounter = 0
    /\ pc = "idle" /\ cyc = NoCycle /\ retryDue = NoPublish
    /\ lastPub = NoPublish /\ runLen = 0
    /\ crashOnException = FALSE /\ pendingTimeouts = {} /\ currentTimeout = 0
    /\ timeoutsSet = 0 /\ loopTasks = 0 /\ directTasks = 0 /\ startCalls = 0
    /\ stopped = FALSE /\ startedAfterStop = FALSE /\ thrown = 0 /\ rethrown = 0
    /\ tInterval = 1 /\ tNow = 0 /\ tDelay = NoDate
    /\ xEntry = NoEntry /\ xNow = 0 /\ xWindows = <<>> /\ xResult = NotResolved
    /\ xStage = "entry"
    /\ lParsed = [settings |-> UNDEFINED, entries |-> <<>>] /\ lNow = 0
    /\ lLoaded = NotLoaded
    /\ pFileText = "A" /\ pNow = 0 /\ pLoadedRawToml = UNDEFINED
    /\ pScopes = [s \in Scopes |-> NewScope]
    /\ pAlone = [s \in Scopes |-> [raw |-> UNDEFINED, scope |-> NewScope]]
    /\ pLast = NoScopeCycle
    /\ qInterval = 0 /\ qCounter = 0 /\ qForced = FALSE /\ qWait = 0
    /\ kInterval = 1 /\ kNow = 0 /\ kRunning = FALSE /\ kDue = NoDate
    /\ kStart = NoDate /\ kPrevStart = NoDate /\ kByTimer = FALSE
    /\ envInterval = <<>> /\ taskSchedulerInterval = 0
    /\ schedulerCreated = FALSE /\ startupCycles = 0

ResolverNext == Resolve /\ UNCHANGED <<cycleVars, schedVars, tickVars, expandVars, loadVars, scopeVars, counterVars, loopVars, startupVars>>

ResolverSpec == ResolverInit /\ [][ResolverNext]_vars

\* A scheduler after createTaskScheduler, with either value of
\* options.crashOnException.
SchedInit ==
    /\ crashOnException \in BOOLEAN
    /\ pendingTimeouts = {} /\ currentTimeout = 0
    /\ timeoutsSet = 0 /\ loopTasks = 0 /\ directTasks = 0 /\ startCalls = 0
    /\ stopped = FALSE /\ startedAfterStop = FALSE /\ thrown = 0 /\ rethrown = 0
    /\ now = 0 /\ fileText = "A"
    /\ slack = [icon |-> "", message |-> "", doNotDisturb |-> FALSE]
    /\ lastLoadedRawToml = UNDEFINED /\ lastLoadedParsedToml = UNDEFINED
    /\ lastSetStatusById = UNDEFINED /\ assertiveIntervalCounter = 0
    /\ pc = "idle" /\ cyc = NoCycle /\ retryDue = NoPublish
    /\ lastPub = NoPublish /\ runLen = 0
    /\ rSchedule = <<>> /\ rNow = 0 /\ rResult = NotResolved
    /\ tInterval = 1 /\ tNow = 0 /\ tDelay = NoDate
    /\ xEntry = NoEntry /\ xNow = 0 /\ xWindows = <<>> /\ xResult = NotResolved
    /\ xStage = "entry"
    /\ lParsed = [settings |-> UNDEFINED, entries |-> <<>>] /\ lNow = 0
    /\ lLoaded = NotLoaded
    /\ pFileText = "A" /\ pNow = 0 /\ pLoadedRawToml = UNDEFINED
    /\ pScopes = [s \in Scopes |-> NewScope]
    /\ pAlone = [s \in Scopes |-> [raw |-> UNDEFINED, scope |-> NewScope]]
    /\ pLast = NoScopeCycle
    /\ qInterval = 0 /\ qCounter = 0 /\ qForced = FALSE /\ qWait = 0
    /\ kInterval = 1 /\ kNow = 0 /\ kRunning = FALSE /\ kDue = NoDate
    /\ kStart = NoDate /\ kPrevStart = NoDate /\ kByTimer = FALSE
    /\ envInterval = <<>> /\ taskSchedulerInterval = 0
    /\ schedulerCreated = FALSE /\ startupCycles = 0

SchedNext ==
    \/ SchedulerStart /\ UNCHANGED <<cycleVars, resolverVars, tickVars, expandVars, loadVars, scopeVars, counterVars, loopVars, startupVars>>
    \/ SchedulerStop /\ UNCHANGED <<cycleVars, resolverVars, tickVars, expandVars, loadVars, scopeVars, counterVars, loopVars, startupVars>>
    \/ TimeoutFires /\ UNCHANGED <<cycleVars, resolverVars, tickVars, expandVars, loadVars, scopeVars, counterVars, loopVars, startupVars>>
    \/ LoopTaskSettles /\ UNCHANGED <<cycleVars, resolverVars, tickVars, expandVars, loadVars, scopeVars, counterVars, loopVars, startupVars>>
    \/ ExecuteTaskCalled /\ UNCHANGED <<cycleVars, resolverVars, tickVars, expandVars, loadVars, scopeVars, counterVars, loopVars, startupVars>>
    \/ DirectTaskSettles /\ UNCHANGED <<cycleVars, resolverVars, tickVars, expandVars, loadVars, scopeVars, counterVars, loopVars, startupVars>>

SchedSpec == SchedInit /\ [][SchedNext]_vars

\* The scheduler with the runtime's guarantee that a timeout which stays
\* set fires.
SchedFairSpec ==
    SchedInit /\ [][SchedNext]_vars
        /\ WF_vars(TimeoutFires /\ UNCHANGED <<cycleVars, resolverVars, tickVars, expandVars, loadVars, scopeVars, counterVars, loopVars, startupVars>>)

\* getMillisecondsUntilNextTask called with any of the intervals at any of
\* the sampled instants.
TickInit ==
    /\ tInterval \in TickIntervals
    /\ tNow \in TickInstants
    /\ tDelay = NoDate
    /\ now = 0 /\ fileText = "A"
    /\ slack = [icon |-> "", message |-> "", doNotDisturb |-> FALSE]
    /\ lastLoadedRawToml = UNDEFINED /\ lastLoadedParsedToml = UNDEFINED
    /\ lastSetStatusById = UNDEFINED /\ assertiveIntervalCounter = 0
    /\ pc = "idle" /\ cyc = NoCycle /\ retryDue = NoPublish
    /\ lastPub = NoPublish /\ runLen = 0
    /\ rSchedule = <<>> /\ rNow = 0 /\ rResult = NotResolved
    /\ crashOnException = FALSE /\ pendingTimeouts = {} /\ currentTimeout = 0
    /\ timeoutsSet = 0 /\ loopTasks = 0 /\ directTasks = 0 /\ startCalls = 0
    /\ stopped = FALSE /\ startedAfterStop = FALSE /\ thrown = 0 /\ rethrown = 0
    /\ xEntry = NoEntry /\ xNow = 0 /\ xWindows = <<>> /\ xResult = NotResolved
    /\ xStage = "entry"
    /\ lParsed = [settings |-> UNDEFINED, entries |-> <<>>] /\ lNow = 0
    /\ lLoaded = NotLoaded
    /\ pFileText = "A" /\ pNow = 0 /\ pLoadedRawToml = UNDEFINED
    /\ pScopes = [s \in Scopes |-> NewScope]
    /\ pAlone = [s \in Scopes |-> [raw |-> UNDEFINED, scope |-> NewScope]]
    /\ pLast = NoScopeCycle
    /\ qInterval = 0 /\ qCounter = 0 /\ qForced = FALSE /\ qWait = 0
    /\ kInterval = 1 /\ kNow = 0 /\ kRunning = FALSE /\ kDue = NoDate
    /\ kStart = NoDate /\ kPrevStart = NoDate /\ kByTimer = FALSE
    /\ envInterval = <<>> /\ taskSchedulerInterval = 0
    /\ schedulerCreated = FALSE /\ startupCycles = 0

TickNext == ComputeDelay /\ UNCHANGED <<cycleVars, resolverVars, schedVars, expandVars, loadVars, scopeVars, counterVars, loopVars, startupVars>>

TickSpec == TickInit /\ [][TickNext]_vars

\* reloadScheduleWithValidation and getExpectedStatusFromSchedule on one
\* schedule entry drawn from the bounded set, at any of the instants.
ExpandInit ==
    /\ xEntry \in ExpandEntries
    /\ xNow \in ExpandInstants
    /\ xWindows = <<>> /\ xResult = NotResolved
    /\ xStage = "entry"
    /\ now = 0 /\ fileText = "A"
    /\ slack = [icon |-> "", message |-> "", doNotDisturb |-> FALSE]
    /\ lastLoadedRawToml = UNDEFINED /\ lastLoadedParsedToml = UNDEFINED
    /\ lastSetStatusById = UNDEFINED /\ assertiveIntervalCounter = 0
    /\ pc = "idle" /\ cyc = NoCycle /\ retryDue = NoPublish
    /\ lastPub = NoPublish /\ runLen = 0
    /\ rSchedule = <<>> /\ rNow = 0 /\ rResult = NotResolved
    /\ crashOnException = FALSE /\ pendingTimeouts = {} /\ currentTimeout = 0
    /\ timeoutsSet = 0 /\ loopTasks = 0 /\ directTasks = 0 /\ startCalls = 0
    /\ stopped = FALSE /\ startedAfterStop = FALSE /\ thrown = 0 /\ rethrown = 0
    /\ tInterval = 1 /\ tNow = 0 /\ tDelay = NoDate
    /\ lParsed = [settings |-> UNDEFINED, entries |-> <<>>] /\ lNow = 0
    /\ lLoaded = NotLoaded
    /\ pFileText = "A" /\ pNow = 0 /\ pLoadedRawToml = UNDEFINED
    /\ pScopes = [s \in Scopes |-> NewScope]
    /\ pAlone = [s \in Scopes |-> [raw |-> UNDEFINED, scope |-> NewScope]]
    /\ pLast = NoScopeCycle
    /\ qInterval = 0 /\ qCounter = 0 /\ qForced = FALSE /\ qWait = 0
    /\ kInterval = 1 /\ kNow = 0 /\ kRunning = FALSE /\ kDue = NoDate
    /\ kStart = NoDate /\ kPrevStart = NoDate /\ kByTimer = FALSE
    /\ envInterval = <<>> /\ taskSchedulerInterval = 0
    /\ schedulerCreated = FALSE /\ startupCycles = 0

ExpandNext ==
    \/ Expand /\ UNCHANGED <<cycleVars, resolverVars, schedVars, tickVars, loadVars, scopeVars, counterVars, loopVars, startupVars>>
    \/ ResolveExpanded /\ UNCHANGED <<cycleVars, resolverVars, schedVars, tickVars, loadVars, scopeVars, counterVars, loopVars, startupVars>>

ExpandSpec == ExpandInit /\ [][ExpandNext]_vars

\* reloadScheduleWithValidation on a parsed file of two entries drawn from
\* the bounded sets.
LoadInit ==
    /\ lParsed \in {[settings |-> [ignoredIcons |-> <<>>, assertiveInterval |-> 0],
                     entries |-> <<p, q>>] : p \in LoadEntries("p"), q \in LoadEntries("q")}
    /\ lNow \in {DateOf(d, 12, 0, 0) : d \in 0..MaxLoadDay}
    /\ lLoaded = NotLoaded
    /\ now = 0 /\ fileText = "A"
    /\ slack = [icon |-> "", message |-> "", doNotDisturb |-> FALSE]
    /\ lastLoadedRawToml = UNDEFINED /\ lastLoadedParsedToml = UNDEFINED
    /\ lastSetStatusById = UNDEFINED /\ assertiveIntervalCounter = 0
    /\ pc = "idle" /\ cyc = NoCycle /\ retryDue = NoPublish
    /\ lastPub = NoPublish /\ runLen = 0
    /\ rSchedule = <<>> /\ rNow = 0 /\ rResult = NotResolved
    /\ crashOnException = FALSE /\ pendingTimeouts = {} /\ currentTimeout = 0
    /\ timeoutsSet = 0 /\ loopTasks = 0 /\ directTasks = 0 /\ startCalls = 0
    /\ stopped = FALSE /\ startedAfterStop = FALSE /\ thrown = 0 /\ rethrown = 0
    /\ tInterval = 1 /\ tNow = 0 /\ tDelay = NoDate
    /\ xEntry = NoEntry /\ xNow = 0 /\ xWindows = <<>> /\ xResult = NotResolved
    /\ xStage = "entry"
    /\ pFileText = "A" /\ pNow = 0 /\ pLoadedRawToml = UNDEFINED
    /\ pScopes = [s \in Scopes |-> NewScope]
    /\ pAlone = [s \in Scopes |-> [raw |-> UNDEFINED, scope |-> NewScope]]
    /\ pLast = NoScopeCycle
    /\ qInterval = 0 /\ qCounter = 0 /\ qForced = FALSE /\ qWait = 0
    /\ kInterval = 1 /\ kNow = 0 /\ kRunning = FALSE /\ kDue = NoDate
    /\ kStart = NoDate /\ kPrevStart = NoDate /\ kByTimer = FALSE
    /\ envInterval = <<>> /\ taskSchedulerInterval = 0
    /\ schedulerCreated = FALSE /\ startupCycles = 0

LoadNext == Load /\ UNCHANGED <<cycleVars, resolverVars, schedVars, tickVars, expandVars, scopeVars, counterVars, loopVars, startupVars>>

LoadSpec == LoadInit /\ [][LoadNext]_vars

\* Two runtime scopes of one process after construction, with either of
\* the schedule texts in the file.
ScopeInit ==
    /\ pFileText \in ScopeTexts
    /\ pNow = ScopeClockStart
    /\ pLoadedRawToml = UNDEFINED
    /\ pScopes = [s \in Scopes |-> NewScope]
    /\ pAlone = [s \in Scopes |-> [raw |-> UNDEFINED, scope |-> NewScope]]
    /\ pLast = NoScopeCycle
    /\ now = 0 /\ fileText = "A"
    /\ slack = [icon |-> "", message |-> "", doNotDisturb |-> FALSE]
    /\ lastLoadedRawToml = UNDEFINED /\ lastLoadedParsedToml = UNDEFINED
    /\ lastSetStatusById = UNDEFINED /\ assertiveIntervalCounter = 0
    /\ pc = "idle" /\ cyc = NoCycle /\ retryDue = NoPublish
    /\ lastPub = NoPublish /\ runLen = 0
    /\ rSchedule = <<>> /\ rNow = 0 /\ rResult = NotResolved
    /\ crashOnException = FALSE /\ pendingTimeouts = {} /\ currentTimeout = 0
    /\ timeoutsSet = 0 /\ loopTasks = 0 /\ directTasks = 0 /\ startCalls = 0
    /\ stopped = FALSE /\ startedAfterStop = FALSE /\ thrown = 0 /\ rethrown = 0
    /\ tInterval = 1 /\ tNow = 0 /\ tDelay = NoDate
    /\ xEntry = NoEntry /\ xNow = 0 /\ xWindows = <<>> /\ xResult = NotResolved
    /\ xStage = "entry"
    /\ lParsed = [settings |-> UNDEFINED, entries |-> <<>>] /\ lNow = 0
    /\ lLoaded = NotLoaded
    /\ qInterval = 0 /\ qCounter = 0 /\ qForced = FALSE /\ qWait = 0
    /\ kInterval = 1 /\ kNow = 0 /\ kRunning = FALSE /\ kDue = NoDate
    /\ kStart = NoDate /\ kPrevStart = NoDate /\ kByTimer = FALSE
    /\ envInterval = <<>> /\ taskSchedulerInterval = 0
    /\ schedulerCreated = FALSE /\ startupCycles = 0

ScopeNext ==
    \/ ScopeCycle /\ UNCHANGED <<cycleVars, resolverVars, schedVars, tickVars, expandVars, loadVars, counterVars, loopVars, startupVars>>
    \/ ScopeEditSchedule /\ UNCHANGED <<cycleVars, resolverVars, schedVars, tickVars, expandVars, loadVars, counterVars, loopVars, startupVars>>
    \/ ScopeAdvanceClock /\ UNCHANGED <<cycleVars, resolverVars, schedVars, tickVars, expandVars, loadVars, counterVars, loopVars, startupVars>>

ScopeSpec == ScopeInit /\ [][ScopeNext]_vars

\* The counter after construction, before the first cycle; the config of
\* the first cycle sets any of the intervals.
CounterInit ==
    /\ qInterval \in 0..MaxReloadInterval
    /\ qCounter = 0
    /\ qForced = FALSE
    /\ qWait = 0
    /\ now = 0 /\ fileText = "A"
    /\ slack = [icon |-> "", message |-> "", doNotDisturb |-> FALSE]
    /\ lastLoadedRawToml = UNDEFINED /\ lastLoadedParsedToml = UNDEFINED
    /\ lastSetStatusById = UNDEFINED /\ assertiveIntervalCounter = 0
    /\ pc = "idle" /\ cyc = NoCycle /\ retryDue = NoPublish
    /\ lastPub = NoPublish /\ runLen = 0
    /\ rSchedule = <<>> /\ rNow = 0 /\ rResult = NotResolved
    /\ crashOnException = FALSE /\ pendingTimeouts = {} /\ currentTimeout = 0
    /\ timeoutsSet = 0 /\ loopTasks = 0 /\ directTasks = 0 /\ startCalls = 0
    /\ stopped = FALSE /\ startedAfterStop = FALSE /\ thrown = 0 /\ rethrown = 0
    /\ tInterval = 1 /\ tNow = 0 /\ tDelay = NoDate
    /\ xEntry = NoEntry /\ xNow = 0 /\ xWindows = <<>> /\ xResult = NotResolved
    /\ xStage = "entry"
    /\ lParsed = [settings |-> UNDEFINED, entries |-> <<>>] /\ lNow = 0
    /\ lLoaded = NotLoaded
    /\ pFileText = "A" /\ pNow = 0 /\ pLoadedRawToml = UNDEFINED
    /\ pScopes = [s \in Scopes |-> NewScope]
    /\ pAlone = [s \in Scopes |-> [raw |-> UNDEFINED, scope |-> NewScope]]
    /\ pLast = NoScopeCycle
    /\ kInterval = 1 /\ kNow = 0 /\ kRunning = FALSE /\ kDue = NoDate
    /\ kStart = NoDate /\ kPrevStart = NoDate /\ kByTimer = FALSE
    /\ envInterval = <<>> /\ taskSchedulerInterval = 0
    /\ schedulerCreated = FALSE /\ startupCycles = 0

CounterNext == AssertiveCycle /\ UNCHANGED <<cycleVars, resolverVars, schedVars, tickVars, expandVars, loadVars, scopeVars, loopVars, startupVars>>

CounterSpec == CounterInit /\ [][CounterNext]_vars

\* A scheduler after createTaskScheduler with any of the intervals, before
\* start() is called at any of the instants.
LoopInit ==
    /\ kInterval \in LoopIntervals
    /\ kNow \in LoopStartInstants
    /\ kRunning = FALSE
    /\ kDue = NoDate
    /\ kStart = NoDate
    /\ kPrevStart = NoDate
    /\ kByTimer = FALSE
    /\ now = 0 /\ fileText = "A"
    /\ slack = [icon |-> "", message |-> "", doNotDisturb |-> FALSE]
    /\ lastLoadedRawToml = UNDEFINED /\ lastLoadedParsedToml = UNDEFINED
    /\ lastSetStatusById = UNDEFINED /\ assertiveIntervalCounter = 0
    /\ pc = "idle" /\ cyc = NoCycle /\ retryDue = NoPublish
    /\ lastPub = NoPublish /\ runLen = 0
    /\ rSchedule = <<>> /\ rNow = 0 /\ rResult = NotResolved
    /\ crashOnException = FALSE /\ pendingTimeouts = {} /\ currentTimeout = 0
    /\ timeoutsSet = 0 /\ loopTasks = 0 /\ directTasks = 0 /\ startCalls = 0
    /\ stopped = FALSE /\ startedAfterStop = FALSE /\ thrown = 0 /\ rethrown = 0
    /\ tInterval = 1 /\ tNow = 0 /\ tDelay = NoDate
    /\ xEntry = NoEntry /\ xNow = 0 /\ xWindows = <<>> /\ xResult = NotResolved
    /\ xStage = "entry"
    /\ lParsed = [settings |-> UNDEFINED, entries |-> <<>>] /\ lNow = 0
    /\ lLoaded = NotLoaded
    /\ pFileText = "A" /\ pNow = 0 /\ pLoadedRawToml = UNDEFINED
    /\ pScopes = [s \in Scopes |-> NewScope]
    /\ pAlone = [s \in Scopes |-> [raw |-> UNDEFINED, scope |-> NewScope]]
    /\ pLast = NoScopeCycle
    /\ qInterval = 0 /\ qCounter = 0 /\ qForced = FALSE /\ qWait = 0
    /\ envInterval = <<>> /\ taskSchedulerInterval = 0
    /\ schedulerCreated = FALSE /\ startupCycles = 0

LoopNext ==
    \/ LoopStart /\ UNCHANGED <<cycleVars, resolverVars, schedVars, tickVars, expandVars, loadVars, scopeVars, counterVars, startupVars>>
    \/ LoopTaskEnds /\ UNCHANGED <<cycleVars, resolverVars, schedVars, tickVars, expandVars, loadVars, scopeVars, counterVars, startupVars>>
    \/ LoopTimeoutFires /\ UNCHANGED <<cycleVars, resolverVars, schedVars, tickVars, expandVars, loadVars, scopeVars, counterVars, startupVars>>

LoopSpec == LoopInit /\ [][LoopNext]_vars

\* The process before its modules are evaluated, with the environment
\* variable unset or set to any of the values.
StartupInit ==
    /\ envInterval \in {<<>>} \cup {<<n>> : n \in 1..MaxEnvInterval}
    /\ taskSchedulerInterval = 0
    /\ schedulerCreated = FALSE /\ startupCycles = 0
    /\ now = 0 /\ fileText = "A"
    /\ slack = [icon |-> "", message |-> "", doNotDisturb |-> FALSE]
    /\ lastLoadedRawToml = UNDEFINED /\ lastLoadedParsedToml = UNDEFINED
    /\ lastSetStatusById = UNDEFINED /\ assertiveIntervalCounter = 0
    /\ pc = "idle" /\ cyc = NoCycle /\ retryDue = NoPublish
    /\ lastPub = NoPublish /\ runLen = 0
    /\ rSchedule = <<>> /\ rNow = 0 /\ rResult = NotResolved
    /\ crashOnException = FALSE /\ pendingTimeouts = {} /\ currentTimeout = 0
    /\ timeoutsSet = 0 /\ loopTasks = 0 /\ directTasks = 0 /\ startCalls = 0
    /\ stopped = FALSE /\ startedAfterStop = FALSE /\ thrown = 0 /\ rethrown = 0
    /\ tInterval = 1 /\ tNow = 0 /\ tDelay = NoDate
    /\ xEntry = NoEntry /\ xNow = 0 /\ xWindows = <<>> /\ xResult = NotResolved
    /\ xStage = "entry"
    /\ lParsed = [settings |-> UNDEFINED, entries |-> <<>>] /\ lNow = 0
    /\ lLoaded = NotLoaded
    /\ pFileText = "A" /\ pNow = 0 /\ pLoadedRawToml = UNDEFINED
    /\ pScopes = [s \in Scopes |-> NewScope]
    /\ pAlone = [s \in Scopes |-> [raw |-> UNDEFINED, scope |-> NewScope]]
    /\ pLast = NoScopeCycle
    /\ qInterval = 0 /\ qCounter = 0 /\ qForced = FALSE /\ qWait = 0
    /\ kInterval = 1 /\ kNow = 0 /\ kRunning = FALSE /\ kDue = NoDate
    /\ kStart = NoDate /\ kPrevStart = NoDate /\ kByTimer = FALSE

StartupNext ==
    \/ ReadInterval /\ UNCHANGED <<cycleVars, resolverVars, schedVars, tickVars, expandVars, loadVars, scopeVars, counterVars, loopVars>>
    \/ CreateScheduler /\ UNCHANGED <<cycleVars, resolverVars, schedVars, tickVars, expandVars, loadVars, scopeVars, counterVars, loopVars>>
    \/ StartupCycle /\ UNCHANGED <<cycleVars, resolverVars, schedVars, tickVars, expandVars, loadVars, scopeVars, counterVars, loopVars>>

StartupSpec == StartupInit /\ [][StartupNext]_vars

(***************************************************************************)
(* The claims                                                              *)
(***************************************************************************)

\* C1  Convergence: in a cycle that follows a successful publish of status
\* S, is not a forced re-assertion, sees the same config text and resolves
\* to S again, no remote call is made and lastSetStatusById is left as the
\* cycle found it.
C1_Convergence ==
    (cyc.converged /\ ~cyc.forced)
        => (cyc.calls = <<>> /\ lastSetStatusById = cyc.lsidStart)

\* C2  Overlap policy: when windows are active at the resolved instant
\* (start <= now < end and the weekday matches), the resolver returns one
\* of them whose end - start is minimal among the active ones.
C2_ShortestWins ==
    LET active == { i \in 1..Len(rSchedule) :
                      /\ rSchedule[i].startTime <= rNow
                      /\ rNow < rSchedule[i].endTime
                      /\ \E d \in 1..Len(rSchedule[i].validWeekdays) :
                            rSchedule[i].validWeekdays[d] = WeekdayName(rNow) }
    IN  (rResult # NotResolved /\ active # {})
            => \E i \in active :
                  /\ rResult.id = rSchedule[i].id
                  /\ rResult.startTime = rSchedule[i].startTime
                  /\ rResult.endTime = rSchedule[i].endTime
                  /\ \A j \in active :
                        rSchedule[i].endTime - rSchedule[i].startTime
                            <= rSchedule[j].endTime - rSchedule[j].startTime

\* A longer window comes first in the schedule, a strictly shorter one
\* after it, both are active, and the resolver returned the shorter.
C2_Witness ==
    /\ Len(rSchedule) >= 2
    /\ rSchedule[1].startTime <= rNow /\ rNow < rSchedule[1].endTime
    /\ rSchedule[2].startTime <= rNow /\ rNow < rSchedule[2].endTime
    /\ rSchedule[1].validWeekdays = <<"mon", "tue">>
    /\ rSchedule[2].validWeekdays = <<"mon", "tue">>
    /\ rSchedule[2].endTime - rSchedule[2].startTime
          < rSchedule[1].endTime - rSchedule[1].startTime
    /\ Len(rSchedule) = 3 => rSchedule[3].endTime <= rNow
    /\ rResult.id = rSchedule[2].id

\* C3  A window is active exactly when start <= now < end and the weekday
\* name of now is in its validWeekdays (active at now = start, not active
\* at now = end): the resolver returns an active window when there is one,
\* and when there is none it returns the no-match sentinel, whose id and
\* message are empty strings and which has no icon.
C3_ActiveOrSentinel ==
    LET active == { i \in 1..Len(rSchedule) :
                      /\ rSchedule[i].startTime <= rNow
                      /\ rNow < rSchedule[i].endTime
                      /\ \E d \in 1..Len(rSchedule[i].validWeekdays) :
                            rSchedule[i].validWeekdays[d] = WeekdayName(rNow) }
    IN  rResult # NotResolved
            => IF active # {}
               THEN \E i \in active : /\ rResult.id = rSchedule[i].id
                                      /\ rResult.startTime = rSchedule[i].startTime
                                      /\ rResult.endTime = rSchedule[i].endTime
               ELSE /\ rResult.id = ""
                    /\ rResult.message = ""
                    /\ ~Truthy(rResult.icon)

\* C4  Manual-override protection: in a cycle that is not a forced
\* re-assertion and fetched a remote icon that is non-empty and not a
\* recognized icon, the cycle is over after its two reads, with no publish
\* and no do-not-disturb request, and lastSetStatusById is the resolved
\* status's id.
C4_OverrideProtected ==
    (cyc.fetchedOk /\ ~cyc.forced /\ isUsingUnrecognizedIcon(cyc.fetched, cyc.knownIcons))
        => /\ pc = "idle"
           /\ Len(cyc.calls) = 2
           /\ \A i \in 1..Len(cyc.calls) : cyc.calls[i].name \in {"users.profile.get", "dnd.info"}
           /\ lastSetStatusById = cyc.expected.id

\* A person's custom icon was fetched while a scheduled status was due and
\* had not been set: the cycle skipped the publish and cached the id.
C4_Witness ==
    /\ cyc.fetchedOk /\ ~cyc.forced
    /\ cyc.fetched.icon = ":custom:"
    /\ cyc.outcome = "override_skip"
    /\ Truthy(cyc.expected.id)
    /\ cyc.lsidResolved # cyc.expected.id
    /\ lastSetStatusById = cyc.expected.id
    /\ slack.icon = ":custom:"

C6_RetryAfterFailure ==
    cyc.retry => (pc = "fetch" \/ cyc.calls # <<>>)

\* C7  Re-assertion period: with settings.assertiveInterval = N > 0 and the
\* resolved status assertive in every cycle since the last forced
\* re-assertion (or since the start), a cycle is a forced re-assertion
\* exactly when it is the N-th of those cycles.
C7_ReassertEveryN ==
    (cyc.assertive /\ cyc.gap > 0) => (cyc.forced <=> cyc.gap = cyc.interval)

\* C8  In a forced re-assertion cycle that fetched a remote icon that is
\* non-empty and not recognized, the resolved status is published
\* (users.profile.set with the resolved icon and message is requested next
\* or was requested), and when the publish succeeded lastSetStatusById is
\* the resolved id and the service shows the resolved icon.
C8_ForcedOverridesManual ==
    (cyc.fetchedOk /\ cyc.forced /\ isUsingUnrecognizedIcon(cyc.fetched, cyc.knownIcons))
        => /\ \/ pc = "profileSet"
              \/ /\ Len(cyc.calls) >= 3
                 /\ cyc.calls[3].name = "users.profile.set"
                 /\ cyc.calls[3].arg.status_emoji = cyc.expected.icon
                 /\ cyc.calls[3].arg.status_text = cyc.expected.message
           /\ cyc.outcome # "override_skip"
           /\ cyc.outcome = "published"
                 => /\ lastSetStatusById = cyc.expected.id
                    /\ slack.icon = cyc.expected.icon
                    /\ slack.message = cyc.expected.message

\* A forced cycle found a person's custom icon and replaced it with the
\* assertive status.
C8_Witness ==
    /\ cyc.fetchedOk /\ cyc.forced
    /\ cyc.fetched.icon = ":custom:"
    /\ cyc.outcome = "published"
    /\ cyc.expected.id = "work"
    /\ lastSetStatusById = "work"
    /\ slack.icon = ":work:"

\* C9  At most one execution of the cycle function is in flight at any
\* time, whatever the order of start(), stop(), executeTask(), timer
\* firings and completions.
C9_OneCycleInFlight == loopTasks + directTasks <= 1

\* C10  After stop() was called (and start() was not called again), the
\* loop starts no cycle, whether stop() came while a timeout was pending or
\* while a cycle was in flight.
C10_NoCycleAfterStop == ~startedAfterStop

C12_WindowsPerEntry ==
    (xStage # "entry" /\ ItemAccepted(xEntry))
        => /\ Len(xWindows) = maximumDaySpan
           /\ \A k \in 0..(maximumDaySpan - 1) :
                 \E i \in 1..Len(xWindows) : DayOf(xWindows[i].startTime) = DayOf(xNow) - k
           /\ \A i \in 1..Len(xWindows) : xWindows[i].endTime > xWindows[i].startTime

\* C13  An entry (with an icon and a valid weekday) whose duration, hours,
\* minutes and seconds together, exceeds (maximumDaySpan - 1) * 24 hours
\* contributes no window and is never resolved; one whose duration is at or
\* under the limit contributes windows.
C13_DurationLimit ==
    (/\ xStage # "entry"
     /\ xEntry.kind = "duration"
     /\ xEntry.icon # ""
     /\ Len(determineValidWeekdaysForSchedule(xEntry.days)) > 0)
        => IF DateOf(0, xEntry.final[1], xEntry.final[2], xEntry.final[3])
                  > (maximumDaySpan - 1) * MsPerDay
           THEN xWindows = <<>> /\ xResult.id \in {UNDEFINED, NULL}
           ELSE Len(xWindows) > 0

\* C14 as stated  The weekday filter is made against the weekday of the day
\* an occurrence is anchored on: the entry is resolved as active exactly
\* when one of its windows has start <= now < end and the weekday of that
\* window's anchor day is in validWeekdays, whatever the weekday of now.
C14_AnchorDayWeekday ==
    xStage = "resolved"
        => (xResult.id = xEntry.id
              <=> \E i \in 1..Len(xWindows) :
                     /\ xWindows[i].startTime <= xNow /\ xNow < xWindows[i].endTime
                     /\ \E d \in 1..Len(xWindows[i].validWeekdays) :
                           xWindows[i].validWeekdays[d] = WeekdayName(xWindows[i].startTime))

\* C14 amended  The weekday filter is made against the calendar weekday of
\* now: the entry is resolved as active exactly when one of its windows has
\* start <= now < end and the weekday of now is in validWeekdays, whatever
\* the weekday of the day the window is anchored on.
C14_CurrentDayWeekday ==
    xStage = "resolved"
        => (xResult.id = xEntry.id
              <=> \E i \in 1..Len(xWindows) :
                     /\ xWindows[i].startTime <= xNow /\ xNow < xWindows[i].endTime
                     /\ \E d \in 1..Len(xWindows[i].validWeekdays) :
                           xWindows[i].validWeekdays[d] = WeekdayName(xNow))

\* An entry valid on Tuesdays only, 22:00 for six hours, resolved on
\* Tuesday at 02:00: the window anchored on Monday is the active one.
C14_Witness ==
    /\ xStage = "resolved"
    /\ xEntry.days = [alias |-> "", list |-> <<"Tue">>]
    /\ xEntry.start = HMS(22, 0, 0) /\ xEntry.kind = "duration" /\ xEntry.final = HMS(6, 0, 0)
    /\ xNow = DateOf(1, 2, 0, 0)
    /\ xResult.id = xEntry.id
    /\ xResult.startTime = DateOf(0, 22, 0, 0)
    /\ WeekdayName(xResult.startTime) = "mon"

\* C15  In a cycle whose users.profile.set succeeded, once the cycle is
\* over: dnd.setSnooze was requested exactly when the resolved status has
\* doNotDisturb and the fetched do-not-disturb was off, dnd.endSnooze
\* exactly when the resolved status has no doNotDisturb and the fetched one
\* was on, and otherwise neither; and no cycle makes more than one
\* do-not-disturb request.
C15_DndFollowsStatus ==
    LET dnd == { i \in 1..Len(cyc.calls) :
                   cyc.calls[i].name \in {"dnd.setSnooze", "dnd.endSnooze"} }
    IN  /\ Cardinality(dnd) <= 1
        /\ (pc = "idle" /\ Len(cyc.calls) >= 3 /\ ~cyc.calls[3].raised)
              => /\ (\E i \in dnd : cyc.calls[i].name = "dnd.setSnooze")
                        <=> (cyc.expected.doNotDisturb /\ ~cyc.fetched.doNotDisturb)
                 /\ (\E i \in dnd : cyc.calls[i].name = "dnd.endSnooze")
                        <=> (~cyc.expected.doNotDisturb /\ cyc.fetched.doNotDisturb)

\* Nothing is scheduled and do-not-disturb was on: the cycle published and
\* then ended the snooze, as its one do-not-disturb request.
C15_Witness ==
    /\ pc = "idle" /\ cyc.outcome = "published"
    /\ Len(cyc.calls) = 4
    /\ cyc.calls[4].name = "dnd.endSnooze" /\ ~cyc.calls[4].raised
    /\ cyc.fetched.doNotDisturb /\ ~cyc.expected.doNotDisturb
    /\ ~slack.doNotDisturb

\* C16  The users.profile.set request carries the resolved status: for an
\* active window its icon, one of the messages its entry declares and the
\* window's end in epoch seconds; when nothing is scheduled, an empty icon,
\* an empty message and expiration 0.  When nothing is scheduled and the
\* fetched status has a message and no unrecognized icon, the cycle makes
\* that request, and its success leaves the remote status empty.
C16_PublishCarriesStatus ==
    /\ (Len(cyc.calls) >= 3 /\ cyc.calls[3].name = "users.profile.set")
          => LET body == cyc.calls[3].arg
                 entries == parseToml(cyc.text).entries
             IN  IF Truthy(cyc.expected.id)
                 THEN /\ body.status_emoji = cyc.expected.icon
                      /\ \E e \in 1..Len(entries) :
                            /\ entries[e].id = cyc.expected.id
                            /\ entries[e].icon = body.status_emoji
                            /\ \E m \in 1..Len(entries[e].message) :
                                  entries[e].message[m] = body.status_text
                      /\ body.status_expiration * MsPerSecond = cyc.expected.endTime
                 ELSE /\ body.status_emoji = ""
                      /\ body.status_text = ""
                      /\ body.status_expiration = 0
    /\ (/\ cyc.fetchedOk /\ ~Truthy(cyc.expected.id) /\ cyc.fetched.message # ""
        /\ ~isUsingUnrecognizedIcon(cyc.fetched, cyc.knownIcons))
          => /\ pc = "profileSet" \/ Len(cyc.calls) >= 3
             /\ cyc.outcome = "published" => (slack.icon = "" /\ slack.message = "")

C18_LoopSurvivesExceptions ==
    /\ [](~crashOnException => rethrown = 0)
    /\ [][(~crashOnException /\ loopTasks' < loopTasks)
             => /\ timeoutsSet' = timeoutsSet + 1
                /\ currentTimeout' = timeoutsSet'
                /\ pendingTimeouts' = pendingTimeouts \cup {currentTimeout'}
                /\ currentTimeout' \notin pendingTimeouts]_schedVars
    /\ (~crashOnException /\ ~stopped /\ pendingTimeouts # {})
          ~> (loopTasks > 0 \/ stopped)

\* Production mode, start() called once and stop() never: a cycle threw,
\* the timeout set after it fired, and the next cycle is in flight.
C18_Witness ==
    /\ ~crashOnException /\ startCalls = 1 /\ ~stopped
    /\ thrown >= 1 /\ rethrown = 0
    /\ timeoutsSet >= 1 /\ pendingTimeouts = {}
    /\ loopTasks = 1

\* C19  In strict mode (crashOnException set) every exception thrown by
\* the cycle function in the loop body is re-raised, and the execution of
\* the loop that raised it sets no timeout: the cycles in flight and the
\* timeouts set are never more than the start() calls whose loop has not
\* thrown.
C19_StrictModeRethrows ==
    crashOnException
        => /\ rethrown = thrown
           /\ loopTasks + Cardinality(pendingTimeouts) <= startCalls - thrown

\* Strict mode, start() called once and stop() never: a cycle ended
\* normally, the following one threw, and neither a cycle nor a timeout is
\* left.
C19_Witness ==
    /\ crashOnException /\ startCalls = 1 /\ ~stopped
    /\ timeoutsSet >= 1
    /\ thrown = 1 /\ rethrown = 1
    /\ loopTasks = 0 /\ pendingTimeouts = {}

C21_AbortKeepsCaches ==
    [][(cyc' # cyc /\ cyc'.outcome \in {"read_error", "parse_error"})
          => /\ pc' = "idle"
             /\ cyc'.calls = <<>>
             /\ UNCHANGED <<lastLoadedRawToml, lastLoadedParsedToml, lastSetStatusById,
                            assertiveIntervalCounter, slack>>]_cycleVars

\* The file was rewritten with a malformed text after a status of text "A"
\* was set and counted: the cycle aborted on the parse and the caches still
\* hold "A".
C21_Witness ==
    /\ cyc.outcome = "parse_error" /\ pc = "idle"
    /\ fileText = "X"
    /\ lastLoadedRawToml = "A" /\ lastLoadedParsedToml = "A"
    /\ Truthy(lastSetStatusById)
    /\ assertiveIntervalCounter > 0

\* C22  Resolver idempotence: whatever Math.random() gives, another call
\* of getExpectedStatusFromSchedule with the same schedule and the same
\* instant returns the id and the icon the first call returned; among the
\* active windows of minimal duration the winner is the first in schedule
\* order; and the message returned, by either call, is one of the messages
\* the winner declares.
C22_ResolverIdempotent ==
    LET active == { i \in 1..Len(rSchedule) : ItemMatches(rSchedule[i], rNow) }
        minimal == { i \in active :
                       \A j \in active :
                          ScheduleDuration(rSchedule[i]) <= ScheduleDuration(rSchedule[j]) }
        Declares(i, m) == \E k \in 1..Len(rSchedule[i].message) : rSchedule[i].message[k] = m
    IN  rResult # NotResolved
            => \A rnd \in 0..(RandomSteps - 1) :
                  LET again == getExpectedStatusFromSchedule(rSchedule, rNow, rnd)
                  IN  /\ again.id = rResult.id
                      /\ again.icon = rResult.icon
                      /\ active # {}
                            => \E i \in minimal :
                                  /\ \A j \in minimal : i <= j
                                  /\ rResult.id = rSchedule[i].id
                                  /\ Declares(i, rResult.message)
                                  /\ Declares(i, again.message)

\* Two windows of different entries are active with the same duration, the
\* first of them declares two messages, and the resolver returned the
\* first one with its second message.
C22_Witness ==
    /\ Len(rSchedule) >= 2
    /\ ItemMatches(rSchedule[1], rNow) /\ ItemMatches(rSchedule[2], rNow)
    /\ ScheduleDuration(rSchedule[1]) = ScheduleDuration(rSchedule[2])
    /\ rSchedule[1].id # rSchedule[2].id
    /\ Len(rSchedule[1].message) = 2
    /\ rResult.id = rSchedule[1].id
    /\ rResult.message = rSchedule[1].message[2]

\* C23  An interval that does not evenly divide 60 is refused when the
\* process starts: with such a value configured no scheduler is created
\* and no cycle runs.
C23_BadIntervalRejected ==
    (taskSchedulerInterval # 0 /\ 60 % taskSchedulerInterval # 0)
        => (~schedulerCreated /\ startupCycles = 0)

\* C24  The first cycle with a successful fetch after the period of an
\* entry with doNotDisturb, with nothing else scheduled and the schedule
\* text unchanged: when the fetched do-not-disturb is on, the cycle
\* requests dnd.endSnooze (unless its users.profile.set request failed),
\* and when that request was answered ok do-not-disturb is off afterwards.
C24_DndOffAfterPeriod ==
    LET entries == parseToml(cyc.text).entries
        ended == \E e \in 1..Len(entries) :
                    /\ ItemAccepted(entries[e])
                    /\ entries[e].id = cyc.lsidStart
                    /\ entries[e].doNotDisturb
        disabling == { i \in 1..Len(cyc.calls) : cyc.calls[i].name = "dnd.endSnooze" }
    IN  (/\ pc = "idle" /\ cyc.fetchedOk /\ ~cyc.changed
         /\ cyc.expected.id = NULL /\ ended
         /\ cyc.fetched.doNotDisturb
         /\ ~(Len(cyc.calls) >= 3 /\ cyc.calls[3].raised))
            => disabling # {}

\* C25  Recognized icons: the icons the guard knows are those of the
\* accepted entries of the schedule text and those settings.ignoredIcons
\* lists, and no others; a fetched icon among them does not count as
\* unrecognized (a forced cycle ends as compliant, another cycle does not
\* take the manual-override skip), any other fetched icon does; in
\* particular a fetched icon that ignoredIcons lists never ends a cycle in
\* the manual-override skip.
C25_RecognizedIcons ==
    LET parsed == parseToml(cyc.text)
        accepted == { parsed.entries[e].icon :
                        e \in { x \in 1..Len(parsed.entries) :
                                  /\ parsed.entries[x].icon # ""
                                  /\ determineValidWeekdaysForSchedule(parsed.entries[x].days) # <<>>
                                  /\ ~(parsed.entries[x].kind = "duration"
                                       /\ parsed.entries[x].final[1] > 24) } }
        ignored == { parsed.settings.ignoredIcons[i] :
                        i \in 1..Len(parsed.settings.ignoredIcons) }
        recognized == cyc.fetched.icon \in accepted \cup ignored
    IN  (cyc.fetchedOk /\ cyc.fetched.icon # "")
            => /\ cyc.knownIcons = accepted \cup ignored
               /\ IF cyc.forced
                  THEN recognized <=> cyc.outcome = "assertive_compliant"
                  ELSE recognized <=> cyc.outcome # "override_skip"
               /\ cyc.fetched.icon \in ignored => cyc.outcome # "override_skip"

\* A window is scheduled, the remote status carries an icon that only
\* ignoredIcons lists, and the cycle went past the manual-override skip and
\* published.
C25_Witness ==
    /\ cyc.fetchedOk /\ ~cyc.forced
    /\ cyc.text = "A" /\ cyc.fetched.icon = ":lunch:"
    /\ Truthy(cyc.expected.id)
    /\ cyc.outcome = "published"

C27_EmptySentinelCached ==
    /\ (pc = "idle" /\ cyc.outcome = "already_empty") => lastSetStatusById = ""
    /\ (pc = "idle" /\ cyc.outcome = "published" /\ ~Truthy(cyc.expected.id))
          => lastSetStatusById = ""
    /\ LastSetAfterReload(TRUE, lastSetStatusById) # ""

\* C28  A cycle that comes directly after a cycle ended by the
\* unrecognized-icon guard, with the same config text and the same resolved
\* status (a window id or no match) and not forced, makes no remote call:
\* it ends in one of the two short-circuits.
C28_NoCallsAfterAdoption ==
    [][(/\ pc = "idle" /\ cyc.outcome = "override_skip"
        /\ (pc' = "fetch" \/ cyc'.outcome # "none")
        /\ cyc'.text = cyc.text
        /\ cyc'.expected.id = cyc.expected.id
        /\ ~cyc'.forced)
          => /\ pc' = "idle"
             /\ cyc'.calls = <<>>
             /\ cyc'.outcome \in {"synced", "known_empty"}]_cycleVars

\* C29  A forced re-assertion cycle whose remote fetch succeeded and whose
\* fetched icon is empty or recognized goes on to the publish step: the
\* users.profile.set request is made (or is the cycle's next step).
C29_ForcedCyclePublishes ==
    (/\ cyc.forced /\ cyc.fetchedOk
     /\ ~isUsingUnrecognizedIcon(cyc.fetched, cyc.knownIcons))
        => \/ pc = "profileSet"
           \/ /\ Len(cyc.calls) >= 3
              /\ cyc.calls[3].name = "users.profile.set"

\* C30  A cycle in which the schedule text cannot be read or parsed, while
\* a parse of an earlier text is cached, still resolves the status from the
\* cached schedule and reconciles: when that schedule has an active window
\* which is not the status last set, the cycle goes on to the remote fetch.
C30_PriorScheduleInEffect ==
    (/\ cyc.outcome \in {"read_error", "parse_error"}
     /\ lastLoadedParsedToml # UNDEFINED)
        => LET prior == ProcessSchedule(parseToml(lastLoadedParsedToml), now)
               expected == getExpectedStatusFromSchedule(prior.schedule, now, 0)
           IN  (Truthy(expected.id) /\ expected.id # lastSetStatusById)
                  => /\ cyc.expected.id = expected.id
                     /\ pc = "fetch" \/ Len(cyc.calls) >= 2

\* C31  The remote calls of one cycle come in the order fetch (the two
\* reads), users.profile.set, do-not-disturb request: the reads are the
\* first two calls and are made once; users.profile.set is made at most
\* once, as the third call, after both reads succeeded; a do-not-disturb
\* request is made at most once, as the fourth call, after a
\* users.profile.set that succeeded.
C31_CallOrder ==
    LET n == Len(cyc.calls)
        Reads(i) == cyc.calls[i].name \in {"users.profile.get", "dnd.info"}
        Toggle(i) == cyc.calls[i].name \in {"dnd.setSnooze", "dnd.endSnooze"}
    IN  /\ n \in {0, 2, 3, 4}
        /\ n >= 2 => /\ cyc.calls[1].name = "users.profile.get"
                     /\ cyc.calls[2].name = "dnd.info"
        /\ \A i \in 1..n : Reads(i) => i <= 2
        /\ \A i \in 1..n :
              cyc.calls[i].name = "users.profile.set"
                 => /\ i = 3
                    /\ ~cyc.calls[1].raised /\ ~cyc.calls[2].raised
                    /\ cyc.fetchedOk
        /\ \A i \in 1..n :
              Toggle(i) => /\ i = 4
                           /\ cyc.calls[3].name = "users.profile.set"
                           /\ ~cyc.calls[3].raised
        /\ pc = "profileSet" => (n = 2 /\ cyc.fetchedOk)
        /\ pc \in {"dnd.setSnooze", "dnd.endSnooze"}
              => (n = 3 /\ ~cyc.calls[3].raised)

\* A cycle made all four calls: the two reads, the profile set and the
\* request that switches do-not-disturb on.
C31_Witness ==
    /\ pc = "idle" /\ Len(cyc.calls) = 4
    /\ cyc.calls[3].name = "users.profile.set"
    /\ cyc.calls[4].name = "dnd.setSnooze"
    /\ slack.doNotDisturb

\* C32  Every window of the loaded schedule comes from an entry of the
\* file that has an icon and whose days value resolves to at least one
\* weekday, and carries that entry's weekdays; an entry without an icon or
\* without a resolved weekday (a list of unrecognized names, an empty
\* list, a string that is no alias) has no window; and the windows are
\* those the file gives with the dropped entries left out.
C32_DroppedEntries ==
    LET entries == lParsed.entries
        Valid(e) == /\ entries[e].icon # ""
                    /\ determineValidWeekdaysForSchedule(entries[e].days) # <<>>
        kept == SelectSeq(entries,
                          LAMBDA item : /\ item.icon # ""
                                        /\ determineValidWeekdaysForSchedule(item.days) # <<>>)
        windows == lLoaded.schedule
    IN  lLoaded # NotLoaded
            => /\ \A w \in 1..Len(windows) :
                     /\ windows[w].icon # ""
                     /\ windows[w].validWeekdays # <<>>
                     /\ \E e \in 1..Len(entries) :
                           /\ Valid(e)
                           /\ entries[e].id = windows[w].id
                           /\ windows[w].validWeekdays
                                 = determineValidWeekdaysForSchedule(entries[e].days)
               /\ \A e \in 1..Len(entries) :
                     ~Valid(e) => \A w \in 1..Len(windows) : windows[w].id # entries[e].id
               /\ \A e \in 1..Len(entries) :
                     Valid(e) => Cardinality({w \in 1..Len(windows) :
                                                 windows[w].id = entries[e].id}) = maximumDaySpan
               /\ windows = ProcessSchedule([lParsed EXCEPT !.entries = kept], lNow).schedule

\* The first entry has an icon but only unrecognized day names, the second
\* is valid: the loaded schedule holds the windows of the second alone.
C32_Witness ==
    /\ lLoaded # NotLoaded
    /\ lParsed.entries[1].icon # ""
    /\ lParsed.entries[1].days = [alias |-> "", list |-> <<"Funday", "Moonday">>]
    /\ lParsed.entries[2].icon # ""
    /\ lParsed.entries[2].days = [alias |-> "", list |-> <<"Mon", "Funday">>]
    /\ Len(lLoaded.schedule) = maximumDaySpan
    /\ \A w \in 1..Len(lLoaded.schedule) :
          /\ lLoaded.schedule[w].id = "q"
          /\ lLoaded.schedule[w].validWeekdays = <<"mon">>

\* C33  An entry declared with days = "weekdays" is valid on exactly the
\* five days Monday to Friday and on no other day, and one declared with
\* days = "everyday" on all seven days: its windows carry exactly those
\* weekdays, and on an instant inside one of its windows it is resolved as
\* active exactly when the weekday of the instant is one of them.
C33_WeekdaysMonToFri ==
    xStage = "resolved" /\ xWindows # <<>> /\ xEntry.days.alias \in {"weekdays", "everyday"}
        => LET days == IF xEntry.days.alias = "weekdays"
                       THEN {"mon", "tue", "wed", "thu", "fri"}
                       ELSE {"mon", "tue", "wed", "thu", "fri", "sat", "sun"}
           IN  /\ \A i \in 1..Len(xWindows) :
                     {xWindows[i].validWeekdays[d] :
                          d \in 1..Len(xWindows[i].validWeekdays)} = days
               /\ (\E i \in 1..Len(xWindows) :
                      xWindows[i].startTime <= xNow /\ xNow < xWindows[i].endTime)
                     => (xResult.id = xEntry.id <=> WeekdayName(xNow) \in days)

\* C34  The dnd.setSnooze request of a publish asks for
\* floor((window end - now) / 60000) minutes, with now read at the moment
\* of the request; the number is a non-negative integer, and the period
\* asked for does not extend past the end of the window.
C34_DndDuration ==
    \A i \in 1..Len(cyc.calls) :
        cyc.calls[i].name = "dnd.setSnooze"
            => /\ cyc.calls[i].arg = MathFloor(cyc.expected.endTime - now, MsPerMinute)
               /\ cyc.calls[i].arg >= 0
               /\ now + cyc.calls[i].arg * MsPerMinute <= cyc.expected.endTime

\* C35  Two runtime scopes of one process do not influence each other: a
\* cycle of a scope takes the schedule as changed, makes the remote calls
\* and leaves the scope's state exactly as the same cycle does when no
\* other scope runs; after the text of the schedule changed, the next cycle
\* of each scope detects the change and resets its lastSetStatusById.
C35_ScopesIndependent ==
    pLast.scope # "none"
        => /\ pLast.scheduleDidChange = pLast.aloneDidChange
           /\ pLast.calls = pLast.aloneCalls
           /\ pScopes[pLast.scope] = pAlone[pLast.scope].scope

C37_CounterWithinInterval ==
    /\ 0 <= qCounter /\ qCounter <= qInterval
    /\ qWait <= MaxReloadInterval

\* C38  The timer loop never runs two cycles for the same aligned tick:
\* every cycle the timeout starts begins on a boundary of the interval, at
\* an instant strictly later than the start of the cycle before it, also
\* when that cycle settled exactly on a boundary (a computed delay of 0) or
\* took longer than the interval.
C38_OneCyclePerTick ==
    kByTimer
        => /\ kStart % (kInterval * MsPerSecond) = 0
           /\ kStart > kPrevStart

====
